---- MODULE Spec2Model ----
(***************************************************************************)
(* Centerpointe dining demand and staffing engine.                         *)
(*                                                                         *)
(* dataset_generator.py (CenterpointeDiningDataGenerator), inference.py    *)
(* (StaffingPredictor) and app.py (the HTTP handlers) as state machines.   *)
(*                                                                         *)
(* Numbers.  A date is the number of days since 2024-01-01 (a Monday).     *)
(* Python floats are modelled in decimal fixed point: a multiplier or an   *)
(* impact is an integer number of thousandths (1.147 -> 1147), a staffing  *)
(* hour value an integer number of tenths after round(x, 1), and the       *)
(* intermediate products are carried with eight decimals (Fx).  TLC's      *)
(* integers are 32 bits wide, so products are taken in two halves (MulU). *)
(***************************************************************************)
EXTENDS Integers, Sequences, FiniteSets, TLC

VARIABLES
    rng,        \* numpy's global random state (np.random.seed / choice / random)
    gens,       \* the constructed generator objects: config and special_periods
    call,       \* the generate_dataset call in progress, or Idle
    runs,       \* the DataFrames returned so far, in order of return
    predictor,  \* the StaffingPredictor object: its tx_estimator and work_estimator
    models_loaded, \* app.py's global of that name
    query,      \* the arguments of the call made on a pure function or a handler
    reply       \* what that call returned, or NoReply

vars == <<rng, gens, call, runs, predictor, models_loaded, query, reply>>

NoReply == [kind |-> "none"]

(***************************************************************************)
(* Calendar: datetime, timedelta(days=1), weekday(), timetuple().tm_yday   *)
(***************************************************************************)
BaseYear == 2024
Years == 3

IsLeap(y) == (y % 4 = 0 /\ y % 100 # 0) \/ y % 400 = 0

DaysInYear(y) == IF IsLeap(y) THEN 366 ELSE 365

DaysInMonth(y, m) ==
    IF m = 2 THEN (IF IsLeap(y) THEN 29 ELSE 28)
    ELSE IF m \in {4, 6, 9, 11} THEN 30 ELSE 31

RECURSIVE DaysBeforeYear(_)
DaysBeforeYear(y) == IF y <= BaseYear THEN 0 ELSE DaysBeforeYear(y - 1) + DaysInYear(y - 1)

RECURSIVE DaysBeforeMonth(_, _)
DaysBeforeMonth(y, m) == IF m <= 1 THEN 0 ELSE DaysBeforeMonth(y, m - 1) + DaysInMonth(y, m - 1)

LastDate == DaysBeforeYear(BaseYear + Years) - 1

Dates == 0..LastDate

RECURSIVE YearFrom(_, _)
YearFrom(y, n) == IF n < DaysInYear(y) THEN y ELSE YearFrom(y + 1, n - DaysInYear(y))

Year(date) == YearFrom(BaseYear, date)

\* tm_yday: 1 on January 1
YDay(date) == date - DaysBeforeYear(Year(date)) + 1

RECURSIVE MonthFrom(_, _, _)
MonthFrom(y, m, n) == IF n <= DaysInMonth(y, m) THEN m ELSE MonthFrom(y, m + 1, n - DaysInMonth(y, m))

Month(date) == MonthFrom(Year(date), 1, YDay(date))

Day(date) == YDay(date) - DaysBeforeMonth(Year(date), Month(date))

\* datetime.weekday(): Monday is 0; 2024-01-01 is a Monday
Weekday(date) == date % 7

\* datetime(y, m, d)
MkDate(y, m, d) == DaysBeforeYear(y) + DaysBeforeMonth(y, m) + d - 1

(***************************************************************************)
(* Float arithmetic in decimal fixed point.  An Fx number is an integer    *)
(* count of 10^-8; a product is rounded to the nearest Fx number and its   *)
(* factors must be below 4.6, which every factor of the programme is.     *)
(***************************************************************************)
FxHalf == 10000

FxOne == FxHalf * FxHalf

Abs(x) == IF x < 0 THEN -x ELSE x

Sign(x) == IF x < 0 THEN -1 ELSE 1

\* a * b for non-negative Fx numbers, the product taken in halves of four digits
MulU(a, b) ==
    LET ah == a \div FxHalf
        al == a % FxHalf
        bh == b \div FxHalf
        bl == b % FxHalf
    IN  ah * bh + (ah * bl + al * bh + (al * bl + FxHalf \div 2) \div FxHalf + FxHalf \div 2) \div FxHalf

\* a * b
Mul(a, b) == Sign(a) * Sign(b) * MulU(Abs(a), Abs(b))

\* the Fx number a / b of two integers 0 <= a < b <= 10^5
Ratio(a, b) ==
    LET hi == (a * FxHalf) \div b
        lo == (((a * FxHalf) % b) * FxHalf + b \div 2) \div b
    IN  hi * FxHalf + lo

\* a decimal literal with three decimals, 1.147 -> Th(1147)
Th(thousandths) == thousandths * 100000

\* math.log(2)
Ln2 == 69314718

RECURSIVE Pow2(_)
Pow2(k) == IF k <= 0 THEN 1 ELSE 2 * Pow2(k - 1)

\* the k with b * 2^k <= a < b * 2^(k+1), for integers a >= b >= 1
RECURSIVE Log2Floor(_, _)
Log2Floor(a, b) == IF a < 2 * b THEN 0 ELSE 1 + Log2Floor(a, 2 * b)

\* z + z^3/3 + z^5/5 + ... from the term z^n/n on, zn being z^n
RECURSIVE AtanhFrom(_, _, _)
AtanhFrom(zn, zz, n) ==
    IF zn = 0 \/ n > 25 THEN 0 ELSE (zn + n \div 2) \div n + AtanhFrom(MulU(zn, zz), zz, n + 2)

\* math.log(a / b) for integers a, b >= 1:
\* with m = a / (b * 2^k) in [1, 2) and z = (m - 1) / (m + 1), log m = 2 atanh z
LnPos(a, b) ==
    LET k == Log2Floor(a, b)
        d == b * Pow2(k)
        z == Ratio(a - d, a + d)
    IN  k * Ln2 + 2 * AtanhFrom(z, MulU(z, z), 1)

Ln(a, b) == IF a >= b THEN LnPos(a, b) ELSE -LnPos(b, a)

\* 1 + r + r^2/2! + ... from the term r^n/n! on, term being r^n/n!
RECURSIVE ExpFrom(_, _, _)
ExpFrom(term, r, n) ==
    IF term = 0 \/ n > 20 THEN 0 ELSE term + ExpFrom((MulU(term, r) + (n + 1) \div 2) \div (n + 1), r, n + 1)

\* math.exp(w): w = n * log 2 + r with 0 <= r < log 2
Exp(w) ==
    LET n == w \div Ln2
        r == w - n * Ln2
        e == ExpFrom(FxOne, r, 0)
    IN  IF n >= 0 THEN e * Pow2(n) ELSE e \div Pow2(-n)

\* w * x for an Fx number w of any size and an Fx number 0 <= x < 10:
\* the integer and the fractional part of |w| multiplied apart
MulBig(w, x) ==
    LET a == Abs(w)
    IN  Sign(w) * ((a \div FxOne) * x + MulU(a % FxOne, x))

\* (a / b) ** x for integers a >= 0, b >= 1 and an Fx exponent x >= 0
Pow(a, b, x) ==
    IF x = 0 THEN FxOne
    ELSE IF a = 0 THEN 0
    ELSE Exp(MulBig(Ln(a, b), x))

(***************************************************************************)
(* Configuration.  A Python dict is a tree node that keeps its keys in     *)
(* insertion order; every other value (number, string, tuple, list) is a   *)
(* leaf.  The tree holds the sections of _load_default_config that a       *)
(* generator reads through self.config in the operations modelled here.    *)
(***************************************************************************)
Leaf(v) == [dict |-> FALSE, value |-> v]

\* a dict literal: pairs is a sequence of <<key, subtree>>
Dict(pairs) ==
    [dict |-> TRUE,
     keys |-> [i \in 1..Len(pairs) |-> pairs[i][1]],
     at   |-> [k \in {pairs[i][1] : i \in 1..Len(pairs)} |->
                  pairs[CHOOSE i \in 1..Len(pairs) : pairs[i][1] = k][2]]]

Has(d, key) == key \in DOMAIN d.at

\* base_dict[key] = value
Put(d, key, value) ==
    IF Has(d, key)
    THEN [d EXCEPT !.at[key] = value]
    ELSE [dict |-> TRUE,
          keys |-> Append(d.keys, key),
          at   |-> [k \in (DOMAIN d.at) \cup {key} |-> IF k = key THEN value ELSE d.at[k]]]

RECURSIVE Get(_, _)
Get(d, path) == IF path = << >> THEN d ELSE Get(d.at[Head(path)], Tail(path))

SpecialPeriod(dates, multiplier) ==
    Dict(<< <<"dates", Leaf(dates)>>, <<"multiplier", Leaf(multiplier)>> >>)

DefaultSpecialPeriods ==
    Dict(<< <<"move_in_week",        SpecialPeriod(<< <<8, 15, 8, 22>> >>, 1280)>>,
            <<"finals_weeks",        SpecialPeriod(<< <<12, 8, 12, 15>>, <<5, 8, 5, 15>> >>, 1160)>>,
            <<"spring_break",        SpecialPeriod(<< <<3, 18, 3, 25>> >>, 310)>>,
            <<"winter_intersession", SpecialPeriod(<< <<12, 16, 1, 14>> >>, 90)>>,
            <<"thanksgiving_week",   SpecialPeriod(<< <<11, 23, 11, 29>> >>, 450)>> >>)

DefaultSemesterDates ==
    Dict(<< <<"fall_start",   Leaf(<<8, 20>>)>>,  <<"fall_end",   Leaf(<<12, 15>>)>>,
            <<"spring_start", Leaf(<<1, 15>>)>>,  <<"spring_end", Leaf(<<5, 15>>)>>,
            <<"summer_start", Leaf(<<6, 1>>)>>,   <<"summer_end", Leaf(<<8, 15>>)>> >>)

\* opening and closing hour of each meal period, in hundredths of an hour
DefaultOperatingHours ==
    Dict(<<
      <<"academic_year", Dict(<<
          <<"weekday", Dict(<< <<"breakfast", Leaf(<<700, 1000>>)>>, <<"lunch", Leaf(<<1075, 1450>>)>>,
                               <<"dinner", Leaf(<<1700, 1950>>)>>, <<"late_night", Leaf(<<2100, 2300>>)>> >>)>>,
          <<"weekend", Dict(<< <<"brunch", Leaf(<<1100, 1500>>)>>, <<"dinner", Leaf(<<1700, 1950>>)>>,
                               <<"late_night", Leaf(<<2100, 2250>>)>> >>)>> >>)>>,
      <<"summer_session", Dict(<<
          <<"weekday", Dict(<< <<"lunch", Leaf(<<1100, 1400>>)>>, <<"dinner", Leaf(<<1700, 1900>>)>> >>)>>,
          <<"weekend", Dict(<< <<"lunch", Leaf(<<1150, 1400>>)>>, <<"dinner", Leaf(<<1700, 1850>>)>> >>)>> >>)>>,
      <<"break_periods", Dict(<<
          <<"weekday", Dict(<< <<"lunch", Leaf(<<1150, 1350>>)>> >>)>>,
          <<"weekend", Leaf("closed")>> >>)>> >>)

\* _load_default_config; start_date and end_date are dates, not strings
LoadDefaultConfig ==
    Dict(<< <<"random_seed", Leaf(42)>>,
            <<"start_date", Leaf(MkDate(2024, 1, 1))>>,
            <<"end_date", Leaf(MkDate(2026, 12, 31))>>,
            <<"operating_hours", DefaultOperatingHours>>,
            <<"academic_calendar", Dict(<< <<"semester_dates", DefaultSemesterDates>>,
                                           <<"special_periods", DefaultSpecialPeriods>> >>)>> >>)

\* an update of the top level alone, as base_dict.update(update_dict) would do
RECURSIVE UpdateFromShallow(_, _, _)
UpdateFromShallow(base_dict, update_dict, i) ==
    IF i > Len(update_dict.keys) THEN base_dict
    ELSE UpdateFromShallow(Put(base_dict, update_dict.keys[i],
                               update_dict.at[update_dict.keys[i]]), update_dict, i + 1)

\* _update_config_recursively: the loop over update_dict.items() from item i on
RECURSIVE UpdateFrom(_, _, _)
UpdateFrom(base_dict, update_dict, i) ==
    IF i > Len(update_dict.keys) THEN base_dict
    ELSE LET key   == update_dict.keys[i]
             value == update_dict.at[key]
             next  == IF Has(base_dict, key) /\ base_dict.at[key].dict /\ value.dict
                      THEN Put(base_dict, key, UpdateFrom(base_dict.at[key], value, 1))
                      ELSE Put(base_dict, key, value)
         IN  UpdateFrom(next, update_dict, i + 1)

UpdateConfigRecursively(base_dict, update_dict) == UpdateFrom(base_dict, update_dict, 1)

\* _setup_academic_calendar: one entry per (period, date range), in declaration order
RECURSIVE FlattenPeriods(_, _)
FlattenPeriods(sp, i) ==
    IF i > Len(sp.keys) THEN << >>
    ELSE LET period_name == sp.keys[i]
             period_data == sp.at[period_name]
             dates       == period_data.at["dates"].value
         IN  [j \in 1..Len(dates) |->
                 [name |-> period_name,
                  start |-> <<dates[j][1], dates[j][2]>>,
                  end |-> <<dates[j][3], dates[j][4]>>,
                  multiplier |-> period_data.at["multiplier"].value]]
             \o FlattenPeriods(sp, i + 1)

SetupAcademicCalendar(config) ==
    FlattenPeriods(Get(config, <<"academic_calendar", "special_periods">>), 1)

\* __init__ without the seeding: the object's attributes after construction
NewGenerator(override) ==
    LET config == UpdateConfigRecursively(LoadDefaultConfig, override)
    IN  [config |-> config, special_periods |-> SetupAcademicCalendar(config)]

(***************************************************************************)
(* CalendarResolver                                                        *)
(***************************************************************************)
\* the containment test with the end day left out of the range
PeriodContainsEndExclusive(period, month, day) ==
    LET start_month == period.start[1]
        start_day   == period.start[2]
        end_month   == period.end[1]
        end_day     == period.end[2]
    IN  IF start_month > end_month
        THEN (month >= start_month /\ day >= start_day) \/ (month <= end_month /\ day < end_day)
        ELSE (month > start_month \/ (month = start_month /\ day >= start_day))
             /\ (month < end_month \/ (month = end_month /\ day < end_day))

\* the containment test of one special period
PeriodContains(period, month, day) ==
    LET start_month == period.start[1]
        start_day   == period.start[2]
        end_month   == period.end[1]
        end_day     == period.end[2]
    IN  IF start_month > end_month
        THEN (month >= start_month /\ day >= start_day) \/ (month <= end_month /\ day <= end_day)
        ELSE (month > start_month \/ (month = start_month /\ day >= start_day))
             /\ (month < end_month \/ (month = end_month /\ day <= end_day))

\* the non-wrapping containment rule used for the regular windows
InWindow(month, day, start, end) ==
    (month > start[1] \/ (month = start[1] /\ day >= start[2]))
    /\ (month < end[1] \/ (month = end[1] /\ day <= end[2]))

\* the regular branch of _get_academic_period_info
RegularPeriodInfo(sd, month, day) ==
    LET semester_dates == [k \in DOMAIN sd.at |-> sd.at[k].value]
    IN
    IF InWindow(month, day, semester_dates.fall_start, semester_dates.fall_end)
    THEN [period_name |-> "fall_semester", period_type |-> "regular", multiplier |-> 1000]
    ELSE IF InWindow(month, day, semester_dates.spring_start, semester_dates.spring_end)
    THEN [period_name |-> "spring_semester", period_type |-> "regular", multiplier |-> 960]
    ELSE IF InWindow(month, day, semester_dates.summer_start, semester_dates.summer_end)
    THEN [period_name |-> "summer_session", period_type |-> "regular", multiplier |-> 320]
    ELSE IF \/ (month = 12 /\ day > semester_dates.fall_end[2])
            \/ (month = 1 /\ day < semester_dates.spring_start[2])
            \/ (month > semester_dates.spring_end[1] /\ month < semester_dates.summer_start[1])
    THEN [period_name |-> "winter_break", period_type |-> "regular", multiplier |-> 90]
    ELSE [period_name |-> "unknown_period", period_type |-> "regular", multiplier |-> 500]

\* the indices of the special periods containing the date, in list order
MatchingPeriods(special_periods, month, day) ==
    {i \in 1..Len(special_periods) : PeriodContains(special_periods[i], month, day)}

Min(S) == CHOOSE x \in S : \A y \in S : x <= y

Max(S) == CHOOSE x \in S : \A y \in S : x >= y

\* a resolver that tests the regular windows before the special periods
PeriodInfoRegularFirst(special_periods, semester_dates, month, day) ==
    LET reg == RegularPeriodInfo(semester_dates, month, day)
        hit == MatchingPeriods(special_periods, month, day)
    IN  IF reg.period_name \in {"fall_semester", "spring_semester", "summer_session"} \/ hit = {}
        THEN reg
        ELSE [period_name |-> special_periods[Min(hit)].name, period_type |-> "special",
              multiplier |-> special_periods[Min(hit)].multiplier]

\* a resolver that scales the special period's multiplier by the multiplier of
\* the regular period the date lies in
PeriodInfoCompounded(special_periods, semester_dates, month, day) ==
    LET reg == RegularPeriodInfo(semester_dates, month, day)
        hit == MatchingPeriods(special_periods, month, day)
    IN  IF hit # {}
        THEN [period_name |-> special_periods[Min(hit)].name, period_type |-> "special",
              multiplier |-> (special_periods[Min(hit)].multiplier * reg.multiplier) \div 1000]
        ELSE reg

\* _get_academic_period_info on (month, day): first matching special period wins
PeriodInfo(special_periods, semester_dates, month, day) ==
    LET hit == MatchingPeriods(special_periods, month, day)
    IN  IF hit # {}
        THEN [period_name |-> special_periods[Min(hit)].name, period_type |-> "special",
              multiplier |-> special_periods[Min(hit)].multiplier]
        ELSE RegularPeriodInfo(semester_dates, month, day)

\* CenterpointeDiningDataGenerator._get_academic_period_info(date)
GetAcademicPeriodInfo(gen, date) ==
    PeriodInfo(gen.special_periods, Get(gen.config, <<"academic_calendar", "semester_dates">>),
               Month(date), Day(date))

\* StaffingPredictor.SPECIAL_PERIODS, one entry per date range
PredictorSpecialPeriods ==
    << [name |-> "move_in_week",        start |-> <<8, 15>>,  end |-> <<8, 22>>,  multiplier |-> 1280],
       [name |-> "finals_weeks",        start |-> <<12, 8>>,  end |-> <<12, 15>>, multiplier |-> 1160],
       [name |-> "finals_weeks",        start |-> <<5, 8>>,   end |-> <<5, 15>>,  multiplier |-> 1160],
       [name |-> "spring_break",        start |-> <<3, 18>>,  end |-> <<3, 25>>,  multiplier |-> 310],
       [name |-> "winter_intersession", start |-> <<12, 16>>, end |-> <<1, 14>>,  multiplier |-> 90],
       [name |-> "thanksgiving_week",   start |-> <<11, 23>>, end |-> <<11, 29>>, multiplier |-> 450] >>

\* the regular branch of get_academic_period_multiplier
PredictorRegularMultiplier(month, day) ==
    IF (month > 8 \/ (month = 8 /\ day >= 20)) /\ (month < 12 \/ (month = 12 /\ day <= 15)) THEN 1000
    ELSE IF (month > 1 \/ (month = 1 /\ day >= 15)) /\ (month < 5 \/ (month = 5 /\ day <= 15)) THEN 960
    ELSE IF (month > 6 \/ (month = 6 /\ day >= 1)) /\ (month < 8 \/ (month = 8 /\ day <= 15)) THEN 320
    ELSE 90

\* a predictor that tests the regular windows before the special periods
PeriodMultiplierRegularFirst(date) ==
    LET month == Month(date)
        day   == Day(date)
        hit   == MatchingPeriods(PredictorSpecialPeriods, month, day)
        reg   == PredictorRegularMultiplier(month, day)
    IN  IF reg # 90 \/ hit = {} THEN reg ELSE PredictorSpecialPeriods[Min(hit)].multiplier

\* StaffingPredictor.get_academic_period_multiplier(date)
GetAcademicPeriodMultiplier(date) ==
    LET month == Month(date)
        day   == Day(date)
        hit   == MatchingPeriods(PredictorSpecialPeriods, month, day)
    IN  IF hit # {} THEN PredictorSpecialPeriods[Min(hit)].multiplier
        ELSE PredictorRegularMultiplier(month, day)

(***************************************************************************)
(* PopulationModel                                                         *)
(***************************************************************************)
\* int(n * x) for an integer 0 <= n < 10^5 and an Fx number 0 <= x < 2
IntTimes(n, x) == (n * (x \div FxHalf) + (n * (x % FxHalf)) \div FxHalf) \div FxHalf

\* int(n * t / 1000): an integer times a literal with three decimals
IntScale(n, thousandths) == (n * thousandths) \div 1000

\* years_elapsed with the day of the year divided by the 360 days of a commercial
\* year: the last days of a year come out later than the first of the next year
YearsElapsedCommercialYear(date) == (Year(date) - BaseYear) * FxOne + Ratio(YDay(date) * 100, 36000)

\* years_elapsed = (date.year - base_year) + tm_yday / 365.25
YearsElapsed(date) == (Year(date) - BaseYear) * FxOne + Ratio(YDay(date) * 100, 36525)

\* int(total_enrollment_base * (1 + yoy_growth_rate) ** years_elapsed), base 31000, rate 0.022.
\* The power is carried to 10^-7, so the truncation can differ by one from the
\* float's where the product lies within 0.004 of a whole number: over 2024-2026
\* that is the one date 2024-11-04 (31575.99996 in the code, 31576 here).
TotalEnrollment(date) == IntTimes(31000, Pow(1000 + 22, 1000, YearsElapsed(date)))

\* enrollment_seasonal_variation.get(period_name, 1.0)
SeasonalFactor(period_name) ==
    CASE period_name = "fall_semester"       -> 1000
      [] period_name = "spring_semester"     -> 960
      [] period_name = "summer_session"      -> 320
      [] period_name = "winter_intersession" -> 80
      [] OTHER                               -> 1000

\* CenterpointeDiningDataGenerator._calculate_student_population(date)
CalculateStudentPopulation(gen, date) ==
    LET total_enrollment       == TotalEnrollment(date)
        period_info            == GetAcademicPeriodInfo(gen, date)
        seasonal_factor        == SeasonalFactor(period_info.period_name)
        active_enrollment      == IntScale(total_enrollment, seasonal_factor)
        residential_students   == IntScale(active_enrollment, 152)
        commuter_students      == active_enrollment - residential_students
        residential_meal_plans == IntScale(residential_students, 1000)
        commuter_meal_plans    == IntScale(commuter_students, 78)
    IN  [total_enrollment        |-> total_enrollment,
         active_enrollment       |-> active_enrollment,
         residential_students    |-> residential_students,
         commuter_students       |-> commuter_students,
         total_meal_plan_holders |-> residential_meal_plans + commuter_meal_plans,
         seasonal_factor         |-> seasonal_factor]

(***************************************************************************)
(* EnvironmentSampler.  numpy's generator is a deterministic stream of     *)
(* uniform draws from one global state; np.random.choice and               *)
(* np.random.random each take one draw.  The stream is modelled by a       *)
(* linear congruential generator, the draw u being state / RngMod.         *)
(***************************************************************************)
RngMod == 16384

\* np.random.seed(seed)
NpRandomSeed(seed) == seed % RngMod

\* the state after one draw
NpAdvance(state) == (4093 * state + 1) % RngMod

\* np.random.random() < p, p in thousandths, on the draw held by state
DrawBelow(state, p) == state * 1000 < p * RngMod

\* np.random.choice(values, p = probs) on the draw held by state: the first
\* index whose cumulative probability exceeds the draw; probs are integers
\* summing to total
RECURSIVE ChoiceFrom(_, _, _, _, _)
ChoiceFrom(state, probs, total, i, cum) ==
    IF i >= Len(probs) \/ state * total < (cum + probs[i]) * RngMod
    THEN i
    ELSE ChoiceFrom(state, probs, total, i + 1, cum + probs[i])

RECURSIVE SumSeq(_)
SumSeq(q) == IF q = << >> THEN 0 ELSE Head(q) + SumSeq(Tail(q))

NpChoice(state, values, probs) == values[ChoiceFrom(state, probs, SumSeq(probs), 1, 0)]

WeatherTypes == <<"sunny", "cloudy", "rainy", "extreme_heat">>

\* seasonal_probabilities[season], in thousandths
WeatherProbs(month) ==
    IF month \in {12, 1, 2} THEN <<580, 270, 140, 10>>
    ELSE IF month \in {3, 4, 5} THEN <<720, 190, 80, 10>>
    ELSE IF month \in {6, 7, 8} THEN <<790, 170, 20, 20>>
    ELSE <<710, 220, 60, 10>>

\* weather_impacts, in thousandths; the same table is StaffingPredictor.WEATHER_IMPACT_MAP
WeatherImpact(weather) ==
    CASE weather = "sunny"        -> 1000
      [] weather = "cloudy"       -> 1023
      [] weather = "rainy"        -> 1147
      [] weather = "extreme_heat" -> 891

\* event_calendar in declaration order; probability in ten-thousandths, impact in thousandths
EventCalendar ==
    << [name |-> "regular_day",             probability |-> 8230, impact |-> 1000, typical_dates |-> << >>],
       [name |-> "club_fair",               probability |-> 250,  impact |-> 1340, typical_dates |-> << <<9, 5>>, <<1, 25>> >>],
       [name |-> "career_fair",             probability |-> 180,  impact |-> 1230, typical_dates |-> << <<10, 15>>, <<2, 20>> >>],
       [name |-> "sports_events",           probability |-> 470,  impact |-> 1120, typical_dates |-> << >>],
       [name |-> "graduation",              probability |-> 80,   impact |-> 1430, typical_dates |-> << <<12, 16>>, <<5, 18>> >>],
       [name |-> "parent_weekend",          probability |-> 120,  impact |-> 1380, typical_dates |-> << <<10, 12>> >>],
       [name |-> "prospective_student_day", probability |-> 150,  impact |-> 1190, typical_dates |-> << >>],
       [name |-> "conference_hosting",      probability |-> 320,  impact |-> 1160, typical_dates |-> << >>],
       [name |-> "campus_construction",     probability |-> 200,  impact |-> 940,  typical_dates |-> << >>] >>

EventTypes == [i \in 1..Len(EventCalendar) |-> EventCalendar[i].name]

EventImpact(event) == EventCalendar[CHOOSE i \in 1..Len(EventCalendar) : EventCalendar[i].name = event].impact

\* the (event, typical date) pairs in the order the two nested loops visit them
RECURSIVE AnchorsFrom(_)
AnchorsFrom(i) ==
    IF i > Len(EventCalendar) THEN << >>
    ELSE [j \in 1..Len(EventCalendar[i].typical_dates) |->
             [event |-> EventCalendar[i].name,
              month |-> EventCalendar[i].typical_dates[j][1],
              day   |-> EventCalendar[i].typical_dates[j][2]]]
         \o AnchorsFrom(i + 1)

Anchors == AnchorsFrom(1)

NearAnchor(anchor, date) == Month(date) = anchor.month /\ Abs(Day(date) - anchor.day) <= 2

\* event_probs of the random draw: suppressed in winter_break and summer_session.
\* [0.95] + [p * 0.1 ...] in hundred-thousandths; NpChoice normalises by the sum
EventProbs(period_name) ==
    IF period_name \in {"winter_break", "summer_session"}
    THEN [i \in 1..Len(EventCalendar) |-> IF i = 1 THEN 95000 ELSE EventCalendar[i].probability]
    ELSE [i \in 1..Len(EventCalendar) |-> EventCalendar[i].probability * 10]

\* the scheduled-event loop from anchor i on, state holding the next draw:
\* the event accepted (or "none") and the state left behind
RECURSIVE ScheduledFrom(_, _, _)
ScheduledFrom(date, state, i) ==
    IF i > Len(Anchors) THEN [event |-> "none", state |-> state]
    ELSE IF NearAnchor(Anchors[i], date)
         THEN IF DrawBelow(state, 700)
              THEN [event |-> Anchors[i].event, state |-> NpAdvance(state)]
              ELSE ScheduledFrom(date, NpAdvance(state), i + 1)
         ELSE ScheduledFrom(date, state, i + 1)

\* CenterpointeDiningDataGenerator._generate_environmental_conditions(date),
\* started with the global random state `state`: the conditions and the state left
GenerateEnvironmentalConditions(gen, date, state) ==
    LET weather   == NpChoice(state, WeatherTypes, WeatherProbs(Month(date)))
        scheduled == ScheduledFrom(date, NpAdvance(state), 1)
        period    == GetAcademicPeriodInfo(gen, date)
        selected  == NpChoice(scheduled.state, EventTypes, EventProbs(period.period_name))
    IN  IF scheduled.event # "none"
        THEN [weather |-> weather, weather_impact |-> WeatherImpact(weather),
              campus_event |-> scheduled.event, event_impact |-> EventImpact(scheduled.event),
              event_scheduled |-> TRUE, state |-> scheduled.state]
        ELSE [weather |-> weather, weather_impact |-> WeatherImpact(weather),
              campus_event |-> selected, event_impact |-> EventImpact(selected),
              event_scheduled |-> FALSE, state |-> NpAdvance(scheduled.state)]

(***************************************************************************)
(* TransactionEstimator                                                    *)
(***************************************************************************)
\* plan_types: typical_daily_usage (hundredths), utilization_rate and
\* student_distribution (thousandths and hundredths)
PlanTypes ==
    << [name |-> "Unlimited",   typical_daily_usage |-> 32, utilization_rate |-> 847, student_distribution |-> 28],
       [name |-> "Block_220",   typical_daily_usage |-> 25, utilization_rate |-> 923, student_distribution |-> 24],
       [name |-> "Block_180",   typical_daily_usage |-> 20, utilization_rate |-> 891, student_distribution |-> 26],
       [name |-> "Block_140",   typical_daily_usage |-> 16, utilization_rate |-> 874, student_distribution |-> 17],
       [name |-> "Suites_Flex", typical_daily_usage |-> 8,  utilization_rate |-> 756, student_distribution |-> 5] >>

\* daily_transaction_rate = sum of usage * utilization * distribution, as an Fx number
RECURSIVE DailyTransactionRate(_)
DailyTransactionRate(i) ==
    IF i > Len(PlanTypes) THEN 0
    ELSE (PlanTypes[i].typical_daily_usage * PlanTypes[i].utilization_rate
              * PlanTypes[i].student_distribution * 10)
         + DailyTransactionRate(i + 1)

\* weekly_patterns[day_names[day_of_week]], in thousandths
DayMultiplier(day_of_week) == <<920, 1050, 1080, 1030, 890, 710, 820>>[day_of_week + 1]

\* payment_methods and meal_period_distribution, in thousandths
PaymentMethods == [meal_swipes |-> 978, dining_dollars |-> 14, bronco_bucks |-> 5, credit_debit |-> 3]

MealPeriodDistribution == [breakfast |-> 180, lunch |-> 520, dinner |-> 270, late_night |-> 30]

\* a split whose last bucket is its own truncated share instead of the remainder
SplitAllTruncated(total_transactions) ==
    [payment_breakdown |->
        [meal_swipes    |-> IntScale(total_transactions, PaymentMethods.meal_swipes),
         dining_dollars |-> IntScale(total_transactions, PaymentMethods.dining_dollars),
         bronco_bucks   |-> IntScale(total_transactions, PaymentMethods.bronco_bucks),
         credit_debit   |-> IntScale(total_transactions, PaymentMethods.credit_debit)],
     meal_period_breakdown |->
        [breakfast  |-> IntScale(total_transactions, MealPeriodDistribution.breakfast),
         lunch      |-> IntScale(total_transactions, MealPeriodDistribution.lunch),
         dinner     |-> IntScale(total_transactions, MealPeriodDistribution.dinner),
         late_night |-> IntScale(total_transactions, MealPeriodDistribution.late_night)]]

\* the payment-method and meal-period splits of _calculate_base_transactions
Split(total_transactions) ==
    LET meal_swipes    == IntScale(total_transactions, PaymentMethods.meal_swipes)
        dining_dollars == IntScale(total_transactions, PaymentMethods.dining_dollars)
        bronco_bucks   == IntScale(total_transactions, PaymentMethods.bronco_bucks)
        breakfast      == IntScale(total_transactions, MealPeriodDistribution.breakfast)
        lunch          == IntScale(total_transactions, MealPeriodDistribution.lunch)
        dinner         == IntScale(total_transactions, MealPeriodDistribution.dinner)
    IN  [payment_breakdown |->
            [meal_swipes    |-> meal_swipes,
             dining_dollars |-> dining_dollars,
             bronco_bucks   |-> bronco_bucks,
             credit_debit   |-> total_transactions - meal_swipes - dining_dollars - bronco_bucks],
         meal_period_breakdown |->
            [breakfast  |-> breakfast,
             lunch      |-> lunch,
             dinner     |-> dinner,
             late_night |-> total_transactions - breakfast - lunch - dinner]]

\* CenterpointeDiningDataGenerator._calculate_base_transactions
CalculateBaseTransactions(date, population_data, period_info, environmental_data) ==
    LET meal_plan_holders == population_data.total_meal_plan_holders
        \* everything that multiplies meal_plan_holders in base_transactions
        factor == Mul(Mul(Mul(Mul(DailyTransactionRate(1), Th(DayMultiplier(Weekday(date)))),
                              Th(period_info.multiplier)),
                          Th(environmental_data.weather_impact)),
                      Th(environmental_data.event_impact))
        \* base_transactions + guest_transactions, guest_multiplier 0.05
        total_transactions == IntTimes(meal_plan_holders, Mul(factor, Th(1050)))
        split == Split(total_transactions)
        dollar_transactions == split.payment_breakdown.dining_dollars
                               + split.payment_breakdown.bronco_bucks
                               + split.payment_breakdown.credit_debit
    IN  [total_transactions    |-> IF total_transactions < 0 THEN 0 ELSE total_transactions,
         payment_breakdown     |-> split.payment_breakdown,
         meal_period_breakdown |-> split.meal_period_breakdown,
         guest_transactions    |-> IntTimes(meal_plan_holders, Mul(factor, Th(50))),
         \* dollar_transaction_average 12.54, meal_swipe_immediate_revenue 0.0: in cents
         daily_revenue         |-> dollar_transactions * 1254 + split.payment_breakdown.meal_swipes * 0,
         dollar_transactions   |-> dollar_transactions]

(***************************************************************************)
(* StaffingEstimator                                                       *)
(***************************************************************************)
\* staffing_model.roles in declaration order: base_hours_per_period and
\* minimum_coverage_hours in tenths of an hour, the two factors in thousandths
Roles ==
    << [role |-> "FOH_General",  key |-> "actual_foh_general",  base_hours_per_period |-> 50,
        volume_scaling_factor |-> 1230, minimum_coverage_hours |-> 40, peak_hour_multiplier |-> 1200],
       [role |-> "FOH_Cashier",  key |-> "actual_foh_cashier",  base_hours_per_period |-> 25,
        volume_scaling_factor |-> 1140, minimum_coverage_hours |-> 20, peak_hour_multiplier |-> 1150],
       [role |-> "Kitchen_Prep", key |-> "actual_kitchen_prep", base_hours_per_period |-> 70,
        volume_scaling_factor |-> 910,  minimum_coverage_hours |-> 60, peak_hour_multiplier |-> 1080],
       [role |-> "Kitchen_Line", key |-> "actual_kitchen_line", base_hours_per_period |-> 90,
        volume_scaling_factor |-> 1020, minimum_coverage_hours |-> 80, peak_hour_multiplier |-> 1100],
       [role |-> "Dish_Room",    key |-> "actual_dish_room",    base_hours_per_period |-> 35,
        volume_scaling_factor |-> 1170, minimum_coverage_hours |-> 30, peak_hour_multiplier |-> 1200],
       [role |-> "Management",   key |-> "actual_management",   base_hours_per_period |-> 20,
        volume_scaling_factor |-> 820,  minimum_coverage_hours |-> 15, peak_hour_multiplier |-> 1050] >>

RoleKeys == {Roles[i].key : i \in 1..Len(Roles)}

RoleOf(key) == Roles[CHOOSE i \in 1..Len(Roles) : Roles[i].key = key]

\* the operating schedule of the day when the winter intersession too takes
\* the schedule of the break periods
DayScheduleIntersessionAsBreak(gen, date, period_info) ==
    LET schedule_key == IF period_info.period_name = "summer_session" THEN "summer_session"
                        ELSE IF period_info.period_name \in {"winter_break", "winter_intersession"}
                        THEN "break_periods"
                        ELSE "academic_year"
        schedule     == Get(gen.config, <<"operating_hours", schedule_key>>)
        day_key      == IF Weekday(date) >= 5 THEN "weekend" ELSE "weekday"
    IN  IF Has(schedule, day_key) THEN schedule.at[day_key] ELSE Dict(<< >>)

\* the operating schedule of the day: config['operating_hours'][schedule_key].get(...)
DaySchedule(gen, date, period_info) ==
    LET schedule_key == IF period_info.period_name = "summer_session" THEN "summer_session"
                        ELSE IF period_info.period_name \in {"winter_break"} THEN "break_periods"
                        ELSE "academic_year"
        schedule     == Get(gen.config, <<"operating_hours", schedule_key>>)
        day_key      == IF Weekday(date) >= 5 THEN "weekend" ELSE "weekday"
    IN  IF Has(schedule, day_key) THEN schedule.at[day_key] ELSE Dict(<< >>)

\* day_schedule == 'closed'
IsClosed(day_schedule) == ~day_schedule.dict /\ day_schedule.value = "closed"

\* hours are carried as integers of 10^-6 hour until they are rounded
HourUnit == 1000000

\* round(hours, 1), to the even tenth on a tie: the result in tenths of an hour
RoundTenths(h) ==
    LET q == h \div (HourUnit \div 10)
        r == h % (HourUnit \div 10)
    IN  IF 2 * r > HourUnit \div 10 THEN q + 1
        ELSE IF 2 * r < HourUnit \div 10 THEN q
        ELSE IF q % 2 = 0 THEN q ELSE q + 1

\* h / (mix / 10000) for hours h and a divisor mix given in ten-thousandths
DivMix(h, mix) == (h \div mix) * FxHalf + ((h % mix) * FxHalf) \div mix

\* staff_mix_factor, in ten-thousandths: 0.82, times 0.91 or 0.76
StaffMixFactor(period_name) ==
    IF period_name = "finals_week" THEN (8200 * 91) \div 100
    ELSE IF period_name = "summer_session" THEN (8200 * 76) \div 100
    ELSE 8200

\* capacity_utilization > 0.9, with capacity_utilization = min(1.0, total / (680 * 2.5)):
\* both sides multiplied by 680 * 25
NearCapacity(total_transactions) ==
    LET turns    == 680 * 25
        utilised == IF total_transactions * 10 < turns THEN total_transactions * 10 ELSE turns
    IN  utilised * 10 > 9 * turns

\* the hours of one role before the clamp: adjusted_hours
AdjustedHours(role_config, num_periods, transaction_data, period_info, environmental_data) ==
    LET base_hours    == role_config.base_hours_per_period * num_periods * (HourUnit \div 10)
        volume_factor == Pow(transaction_data.total_transactions, 2000, Th(730))
        v1 == Mul(volume_factor, Th(role_config.volume_scaling_factor))
        peak_transactions == Max({transaction_data.meal_period_breakdown[k] :
                                      k \in DOMAIN transaction_data.meal_period_breakdown})
        v2 == IF peak_transactions > 800 THEN Mul(v1, Th(role_config.peak_hour_multiplier)) ELSE v1
        v3 == IF environmental_data.weather = "rainy" THEN Mul(v2, Th(1040)) ELSE v2
        v4 == IF environmental_data.event_impact > 1200 THEN Mul(v3, Th(1070)) ELSE v3
        scaled_hours == Mul(base_hours, v4)
    IN  DivMix(scaled_hours, StaffMixFactor(period_info.period_name))

\* the final hours of a role without the minimum-coverage clamp
FinalHoursUnclamped(role_config, adjusted_hours, total_transactions) ==
    RoundTenths(IF NearCapacity(total_transactions) THEN Mul(adjusted_hours, Th(1080)) ELSE adjusted_hours)

\* final_hours with the surge applied to adjusted_hours, before the clamp
FinalHoursSurgeFirst(role_config, adjusted_hours, total_transactions) ==
    LET minimum == role_config.minimum_coverage_hours * (HourUnit \div 10)
        surged  == IF NearCapacity(total_transactions) THEN Mul(adjusted_hours, Th(1080))
                   ELSE adjusted_hours
    IN  RoundTenths(IF surged > minimum THEN surged ELSE minimum)

\* final_hours of one role, rounded: tenths of an hour
FinalHours(role_config, adjusted_hours, total_transactions) ==
    LET minimum     == role_config.minimum_coverage_hours * (HourUnit \div 10)
        final_hours == IF adjusted_hours > minimum THEN adjusted_hours ELSE minimum
    IN  RoundTenths(IF NearCapacity(total_transactions) THEN Mul(final_hours, Th(1080)) ELSE final_hours)

\* CenterpointeDiningDataGenerator._calculate_staffing_requirements
CalculateStaffingRequirements(gen, date, transaction_data, period_info, environmental_data) ==
    LET day_schedule == DaySchedule(gen, date, period_info)
        num_periods  == Len(day_schedule.keys)
    IN  IF IsClosed(day_schedule)
        THEN [key \in RoleKeys |-> 0]
        ELSE [key \in RoleKeys |->
                 FinalHours(RoleOf(key),
                            AdjustedHours(RoleOf(key), num_periods, transaction_data,
                                          period_info, environmental_data),
                            transaction_data.total_transactions)]

(***************************************************************************)
(* StaffingPredictor (inference.py)                                        *)
(***************************************************************************)
\* what a call does: it raises or it returns a value
Raises(error, message) == [kind |-> "raised", error |-> error, message |-> message]

Returns(value) == [kind |-> "returned", value |-> value]

\* keys of WEATHER_IMPACT_MAP and EVENT_IMPACT_MAP: the values are those of the
\* generator's weather_impacts and event_calendar
ValidWeather == {WeatherTypes[i] : i \in 1..Len(WeatherTypes)}

ValidEvents == {EventTypes[i] : i \in 1..Len(EventTypes)}

\* date.isocalendar()[1]
WeeksInYear(y) ==
    LET january_first == Weekday(DaysBeforeYear(y))
    IN  IF january_first = 3 \/ (IsLeap(y) /\ january_first = 2) THEN 53 ELSE 52

IsoWeek(date) ==
    LET week == (YDay(date) - (Weekday(date) + 1) + 10) \div 7
    IN  IF week < 1 THEN WeeksInYear(Year(date) - 1)
        ELSE IF week > WeeksInYear(Year(date)) THEN 1
        ELSE week

\* int(n * multiplier) for a multiplier given in thousandths.  The float product
\* is the exact one except under 1.16, whose double lies 0.36 units of the last
\* place below 1.16: a product that is a whole number N = 1.16 n is then held
\* just below N when 0.36 n exceeds half the spacing of the doubles at N.
IntOfProduct(n, thousandths) ==
    LET exact == (n * thousandths) \div 1000
    IN  IF thousandths = 1160 /\ n > 0 /\ (n * thousandths) % 1000 = 0
           /\ 18 * n > 25 * Pow2(Log2Floor(exact, 1))
        THEN exact - 1
        ELSE exact

\* the populations calculate_enrollment_features derives from total_enrollment
\* and seasonal_multiplier
EnrollmentFeatures(total_enrollment, seasonal_multiplier) ==
    LET residential_students   == IntScale(total_enrollment, 152)
        commuter_students      == total_enrollment - residential_students
        residential_meal_plans == IntScale(residential_students, 1000)
        commuter_meal_plans    == IntScale(commuter_students, 78)
    IN  [total_enrollment           |-> total_enrollment,
         active_enrollment          |-> IntOfProduct(total_enrollment, seasonal_multiplier),
         residential_students       |-> residential_students,
         commuter_students          |-> commuter_students,
         total_meal_plan_holders    |-> IntOfProduct(residential_meal_plans + commuter_meal_plans,
                                                     seasonal_multiplier),
         enrollment_seasonal_factor |-> seasonal_multiplier,
         seasonal_multiplier        |-> seasonal_multiplier]

\* StaffingPredictor.calculate_enrollment_features
CalculateEnrollmentFeatures(date) ==
    EnrollmentFeatures(TotalEnrollment(date), GetAcademicPeriodMultiplier(date))

\* the row of the frame create_model_features builds from valid arguments
FeatureRow(date, weather, event, enrollment_features) ==
    [day_of_week   |-> Weekday(date),
     month         |-> Month(date),
     year          |-> Year(date),
     day_of_year   |-> YDay(date),
     week_of_year  |-> IsoWeek(date),
     is_weekend    |-> IF Weekday(date) >= 5 THEN 1 ELSE 0,
     seasonal_multiplier        |-> enrollment_features.seasonal_multiplier,
     total_enrollment           |-> enrollment_features.total_enrollment,
     active_enrollment          |-> enrollment_features.active_enrollment,
     residential_students       |-> enrollment_features.residential_students,
     commuter_students          |-> enrollment_features.commuter_students,
     total_meal_plan_holders    |-> enrollment_features.total_meal_plan_holders,
     enrollment_seasonal_factor |-> enrollment_features.enrollment_seasonal_factor,
     weather_impact |-> WeatherImpact(weather),
     event_impact   |-> EventImpact(event)]

\* StaffingPredictor.create_model_features
CreateModelFeatures(date, weather, event) ==
    IF weather \notin ValidWeather THEN Raises("ValueError", "Invalid weather")
    ELSE IF event \notin ValidEvents THEN Raises("ValueError", "Invalid event")
    ELSE Returns(FeatureRow(date, weather, event, CalculateEnrollmentFeatures(date)))

\* The pickled estimators are not part of the repository.  A transaction model
\* is taken to predict intercept + total_meal_plan_holders / 10 and a staffing
\* model intercept + total_transactions / 100 hours for every role, the
\* intercepts, in hundredths, being what the pickle file holds.
TxModels == {[loaded |-> TRUE, intercept |-> i] : i \in {-99999, 40}}

WorkModels == {[loaded |-> TRUE, intercept |-> i] : i \in {-5000, 1207}}

\* self.tx_estimator.predict(features)[0], in hundredths
TxEstimate(estimator, features) == estimator.intercept + features.total_meal_plan_holders * 10

\* self.work_estimator.predict(features)[0][i], in hundredths of an hour
WorkEstimate(estimator, features, i) == estimator.intercept + features.total_transactions

\* int(x) of a number given in hundredths: truncation towards zero
IntOfHundredths(x) == Sign(x) * (Abs(x) \div 100)

\* StaffingPredictor(): self.tx_estimator = None, self.work_estimator = None
NoEstimator == [loaded |-> FALSE]

NewPredictor == [tx_estimator |-> NoEstimator, work_estimator |-> NoEstimator]

\* an estimator whose predict raises on the frame it is given, as one trained
\* on other columns does
BrokenTxModel == [loaded |-> TRUE, intercept |-> 0, broken |-> TRUE]

Broken(estimator) == "broken" \in DOMAIN estimator

\* predict_transactions once the features are made, or the exception they raised
TransactionsFrom(p, made) ==
    IF made.kind = "raised" THEN made
    ELSE IF Broken(p.tx_estimator) THEN Raises("ValueError", "Feature names mismatch")
    ELSE Returns(Max({0, IntOfHundredths(TxEstimate(p.tx_estimator, made.value))}))

\* StaffingPredictor.predict_transactions
PredictTransactions(p, date, weather, event) ==
    IF ~p.tx_estimator.loaded THEN Raises("ValueError", "Transaction model not loaded")
    ELSE TransactionsFrom(p, CreateModelFeatures(date, weather, event))

\* the staffing roles in the order of DEFAULT_STAFFING_ROLES
DefaultStaffingRoles == [i \in 1..Len(Roles) |-> Roles[i].key]

\* stage 2 with the hours the work model returned taken as they are, without
\* max(0.0, ...)
StageTwoUnbounded(p, stage1, made) ==
    IF stage1.kind = "raised" THEN stage1
    ELSE IF made.kind = "raised" THEN made
    ELSE LET features == [f \in (DOMAIN made.value) \cup {"total_transactions"} |->
                             IF f = "total_transactions" THEN stage1.value ELSE made.value[f]]
             hours    == [i \in 1..Len(DefaultStaffingRoles) |->
                             WorkEstimate(p.work_estimator, features, i) \div 10]
         IN  Returns(
                [roles |-> [key \in RoleKeys |->
                              hours[CHOOSE i \in 1..Len(DefaultStaffingRoles) :
                                        DefaultStaffingRoles[i] = key]],
                 total_predicted_hours  |-> SumSeq(hours),
                 predicted_transactions |-> stage1.value])

\* stage 2 of predict_staffing_requirements, from what stage 1 and the second
\* create_model_features gave: the hours in tenths
StageTwo(p, stage1, made) ==
    IF stage1.kind = "raised" THEN stage1
    ELSE IF made.kind = "raised" THEN made
    ELSE LET features == [f \in (DOMAIN made.value) \cup {"total_transactions"} |->
                             IF f = "total_transactions" THEN stage1.value ELSE made.value[f]]
             hours    == [i \in 1..Len(DefaultStaffingRoles) |->
                             RoundTenths(Max({0, WorkEstimate(p.work_estimator, features, i)})
                                         * (HourUnit \div 100))]
         IN  Returns(
                [roles |-> [key \in RoleKeys |->
                              hours[CHOOSE i \in 1..Len(DefaultStaffingRoles) :
                                        DefaultStaffingRoles[i] = key]],
                 total_predicted_hours  |-> SumSeq(hours),
                 predicted_transactions |-> stage1.value])

\* StaffingPredictor.predict_staffing_requirements with the default target_features
PredictStaffingRequirements(p, date, weather, event) ==
    IF ~p.tx_estimator.loaded THEN Raises("ValueError", "Transaction model not loaded")
    ELSE IF ~p.work_estimator.loaded THEN Raises("ValueError", "Work model not loaded")
    ELSE StageTwo(p, PredictTransactions(p, date, weather, event),
                  CreateModelFeatures(date, weather, event))

\* the columns of the frame create_model_features returns, in order
FeatureColumns ==
    <<"day_of_week", "month", "year", "day_of_year", "week_of_year", "is_weekend",
      "seasonal_multiplier", "total_enrollment", "active_enrollment", "residential_students",
      "commuter_students", "total_meal_plan_holders", "enrollment_seasonal_factor",
      "weather_impact", "event_impact">>

\* one call of estimator.predict(features): the estimator, the columns of the
\* frame in order and the row
Invocation(estimator, columns, features) ==
    [estimator |-> estimator, columns |-> columns, features |-> features]

\* the calls made when the work model is called whether or not stage 1 returned
InvocationsWorkRegardless(made, stage1) ==
    IF made.kind = "raised" THEN << >>
    ELSE << Invocation("tx_estimator", FeatureColumns, made.value),
            Invocation("work_estimator", Append(FeatureColumns, "total_transactions"),
                       [f \in (DOMAIN made.value) \cup {"total_transactions"} |->
                           IF f = "total_transactions"
                           THEN (IF stage1.kind = "raised" THEN 0 ELSE stage1.value)
                           ELSE made.value[f]]) >>

\* the calls of predict that predict_staffing_requirements makes once both
\* models are loaded, in order, from the features made and what stage 1 gave
InvocationsFrom(made, stage1) ==
    IF made.kind = "raised" THEN << >>
    ELSE IF stage1.kind = "raised"
    THEN << Invocation("tx_estimator", FeatureColumns, made.value) >>
    ELSE << Invocation("tx_estimator", FeatureColumns, made.value),
            Invocation("work_estimator", Append(FeatureColumns, "total_transactions"),
                       [f \in (DOMAIN made.value) \cup {"total_transactions"} |->
                           IF f = "total_transactions" THEN stage1.value ELSE made.value[f]]) >>

\* the calls of predict made by predict_staffing_requirements(date, weather, event)
Invocations(p, date, weather, event) ==
    IF ~p.tx_estimator.loaded \/ ~p.work_estimator.loaded THEN << >>
    ELSE InvocationsFrom(CreateModelFeatures(date, weather, event),
                         PredictTransactions(p, date, weather, event))

\* a loop that ends at the first date whose prediction raises
RECURSIVE BatchRowsUntilFailure(_, _, _, _, _)
BatchRowsUntilFailure(p, dates, weather_conditions, events, i) ==
    IF i > Min({Len(dates), Len(weather_conditions), Len(events)}) THEN << >>
    ELSE LET prediction == PredictStaffingRequirements(p, dates[i], weather_conditions[i], events[i])
             rest       == BatchRowsUntilFailure(p, dates, weather_conditions, events, i + 1)
         IN  IF prediction.kind = "raised" THEN << >>
             ELSE << [prediction |-> prediction.value, date |-> dates[i],
                      weather |-> weather_conditions[i], event |-> events[i]] >> \o rest

\* the loop of batch_predict from the i-th triple on: the rows appended
RECURSIVE BatchRows(_, _, _, _, _)
BatchRows(p, dates, weather_conditions, events, i) ==
    IF i > Min({Len(dates), Len(weather_conditions), Len(events)}) THEN << >>
    ELSE LET prediction == PredictStaffingRequirements(p, dates[i], weather_conditions[i], events[i])
             rest       == BatchRows(p, dates, weather_conditions, events, i + 1)
         IN  IF prediction.kind = "raised" THEN rest
             ELSE << [prediction |-> prediction.value, date |-> dates[i],
                      weather |-> weather_conditions[i], event |-> events[i]] >> \o rest

\* StaffingPredictor.batch_predict: the rows of the DataFrame returned
BatchPredict(p, dates, weather_conditions, events) ==
    IF ~(Len(dates) = Len(weather_conditions) /\ Len(weather_conditions) = Len(events))
    THEN Raises("ValueError", "All input lists must have the same length")
    ELSE Returns(BatchRows(p, dates, weather_conditions, events, 1))

(***************************************************************************)
(* app.py: the demo predictions and the /api/predict handler               *)
(***************************************************************************)
\* Python's None, the value of app.py's predictor when the models are not loaded
None == [none |-> TRUE]

WorkerDisplayNames ==
    [actual_foh_general  |-> "General Purpose Worker",
     actual_foh_cashier  |-> "Cashier",
     actual_kitchen_prep |-> "Chef",
     actual_kitchen_line |-> "Line Workers",
     actual_dish_room    |-> "Dishwasher",
     actual_management   |-> "Management"]

\* base_multiplier and event_multiplier of get_mock_prediction, in tenths:
\* dict.get(key, 1.0) gives 1.0 for a key the dict does not hold
MockWeatherMultiplier(weather) ==
    CASE weather = "sunny"        -> 10
      [] weather = "cloudy"       -> 11
      [] weather = "rainy"        -> 13
      [] weather = "extreme_heat" -> 9
      [] OTHER                    -> 10

MockEventMultiplier(event) ==
    CASE event = "regular_day"             -> 10
      [] event = "club_fair"               -> 14
      [] event = "career_fair"             -> 12
      [] event = "sports_events"           -> 11
      [] event = "graduation"              -> 15
      [] event = "parent_weekend"          -> 13
      [] event = "prospective_student_day" -> 12
      [] event = "conference_hosting"      -> 11
      [] event = "campus_construction"     -> 9
      [] OTHER                             -> 10

\* base_hours of get_mock_prediction in the order of the dict, in tenths of an hour
MockBaseHours == <<240, 160, 200, 180, 120, 80>>

\* the random state after n draws; random.random() is the generator numpy wraps
RECURSIVE Advance(_, _)
Advance(state, n) == IF n = 0 THEN state ELSE Advance(NpAdvance(state), n - 1)

\* 1000 * x * (0.8 + random.random() * 0.4), the draw being state / RngMod
Vary(x, state) ==
    800 * x + 400 * ((x * state) \div RngMod) + (400 * ((x * state) % RngMod)) \div RngMod

\* get_mock_prediction(date, weather, event), seed being hash(f"{date}{weather}{event}")
GetMockPrediction(seed, weather, event) ==
    LET total_multiplier == MockWeatherMultiplier(weather) * MockEventMultiplier(event)
        first            == NpRandomSeed(seed)
        adjusted_hours   == [i \in 1..Len(MockBaseHours) |->
                                Vary(MockBaseHours[i] * total_multiplier, Advance(first, i - 1))]
    IN  [roles |-> [key \in RoleKeys |->
                      RoundTenths(adjusted_hours[CHOOSE i \in 1..Len(DefaultStaffingRoles) :
                                                     DefaultStaffingRoles[i] = key])],
         total_predicted_hours  |-> RoundTenths(SumSeq(adjusted_hours)),
         predicted_transactions |-> Vary(450 * total_multiplier, Advance(first, Len(MockBaseHours)))
                                    \div 100000]

\* datetime.strptime(date_str, '%Y-%m-%d') of a string given by its three numbers
Strptime(date_str) ==
    IF /\ Len(date_str) = 3
       /\ date_str[2] \in 1..12
       /\ date_str[3] \in 1..DaysInMonth(date_str[1], date_str[2])
    THEN Returns(MkDate(date_str[1], date_str[2], date_str[3]))
    ELSE Raises("ValueError", "does not match format")

\* jsonify(body), status
Response(status, body) == [kind |-> "response", status |-> status, body |-> body]

\* predict_staffing(): POST /api/predict with the JSON object data; a key the
\* object lacks reads as the empty value
ApiPredict(p, loaded, data, seed) ==
    IF data.date = << >> \/ data.weather = "" \/ data.event = ""
    THEN Response(400, [error |-> "Missing required parameters"])
    ELSE LET date == Strptime(data.date)
             prediction == IF loaded /\ p # None
                           THEN PredictStaffingRequirements(p, date.value, data.weather, data.event)
                           ELSE Returns(GetMockPrediction(seed, data.weather, data.event))
         IN  IF date.kind = "raised"
             THEN Response(400, [error |-> "Invalid date format. Use YYYY-MM-DD"])
             ELSE IF prediction.kind = "raised"
             THEN Response(500, [error |-> prediction.message])
             ELSE Response(200,
                     [workers |-> [name \in {WorkerDisplayNames[key] : key \in RoleKeys} |->
                                     prediction.value.roles[CHOOSE key \in RoleKeys :
                                                                WorkerDisplayNames[key] = name]],
                      total_predicted_hours  |-> prediction.value.total_predicted_hours,
                      predicted_transactions |-> prediction.value.predicted_transactions])

\* hash(s) of a string that holds the date: Python salts the hash of a string
\* anew in every process, and two strings hash apart
HashOf(salt, date) == salt + date

\* get_mock_prediction_simple(date_str), seed being hash(date_str)
GetMockPredictionSimple(seed, date) ==
    LET weekday_multiplier == IF Weekday(date) < 5 THEN 12 ELSE 8
        first              == NpRandomSeed(seed)
        adjusted_hours     == [i \in 1..Len(MockBaseHours) |->
                                  Vary(MockBaseHours[i] * weekday_multiplier * 10, Advance(first, i - 1))]
    IN  [roles |-> [key \in RoleKeys |->
                      RoundTenths(adjusted_hours[CHOOSE i \in 1..Len(DefaultStaffingRoles) :
                                                     DefaultStaffingRoles[i] = key])],
         total_predicted_hours  |-> RoundTenths(SumSeq(adjusted_hours)),
         predicted_transactions |-> Vary(450 * weekday_multiplier * 10,
                                         Advance(first, Len(MockBaseHours))) \div 100000]

\* dates = []; while current_date <= end_date: dates.append(current_date); ...
DateRange(start_date, end_date) ==
    [i \in 1..(end_date - start_date + 1) |-> start_date + (i - 1)]

\* formatted_row of the two range handlers, from a prediction dict
FormattedRow(date, prediction) ==
    [date                   |-> date,
     workers                |-> [name \in {WorkerDisplayNames[key] : key \in RoleKeys} |->
                                   prediction.roles[CHOOSE key \in RoleKeys :
                                                        WorkerDisplayNames[key] = name]],
     total_predicted_hours  |-> prediction.total_predicted_hours,
     predicted_transactions |-> prediction.predicted_transactions]

\* the loop of simple_batch_predict from the i-th date on: the rows formatted,
\* or the exception predict_staffing_requirements raised
RECURSIVE SimpleRows(_, _, _, _, _)
SimpleRows(p, loaded, dates, salt, i) ==
    IF i > Len(dates) THEN Returns(<< >>)
    ELSE LET prediction == IF loaded /\ p # None
                           THEN PredictStaffingRequirements(p, dates[i], "sunny", "regular_day")
                           ELSE Returns(GetMockPredictionSimple(HashOf(salt, dates[i]), dates[i]))
             rest       == SimpleRows(p, loaded, dates, salt, i + 1)
         IN  IF prediction.kind = "raised" THEN prediction
             ELSE IF rest.kind = "raised" THEN rest
             ELSE Returns(<<FormattedRow(dates[i], prediction.value)>> \o rest.value)

\* return jsonify(formatted_predictions), or the answer of `except Exception`
RowsResponse(rows) ==
    IF rows.kind = "raised" THEN Response(500, [error |-> rows.message])
    ELSE Response(200, rows.value)

\* simple_batch_predict(): POST /api/simple-batch-predict with the JSON object data
SimpleBatchPredict(p, loaded, data, salt) ==
    IF data.start_date = << >> \/ data.end_date = << >>
    THEN Response(400, [error |-> "Missing required parameters"])
    ELSE IF Strptime(data.start_date).kind = "raised" \/ Strptime(data.end_date).kind = "raised"
    THEN Response(400, [error |-> "Invalid date format. Use YYYY-MM-DD"])
    ELSE RowsResponse(SimpleRows(p, loaded,
                                 DateRange(Strptime(data.start_date).value,
                                           Strptime(data.end_date).value), salt, 1))

\* the rows batch_predict_staffing formats from the frame batch_predict returned
BatchFormatted(rows) ==
    [i \in 1..Len(rows) |->
        [date                   |-> rows[i].date,
         weather                |-> rows[i].weather,
         event                  |-> rows[i].event,
         workers                |-> FormattedRow(rows[i].date, rows[i].prediction).workers,
         total_predicted_hours  |-> rows[i].prediction.total_predicted_hours,
         predicted_transactions |-> rows[i].prediction.predicted_transactions]]

\* the rows batch_predict_staffing makes in demo mode: get_mock_prediction of
\* every date, seeded with hash(f"{date}{weather}{event}")
MockRows(dates, weather, event, salt) ==
    [i \in 1..Len(dates) |->
        [date     |-> dates[i], weather |-> weather, event |-> event,
         prediction |-> GetMockPrediction(HashOf(salt, dates[i]), weather, event)]]

\* return jsonify(formatted_predictions) of batch_predict_staffing, or the
\* answer of its `except Exception`
BatchResponse(frame) ==
    IF frame.kind = "raised" THEN Response(500, [error |-> frame.message])
    ELSE Response(200, BatchFormatted(frame.value))

\* batch_predict_staffing() with the JSON object data
BatchPredictStaffing(p, loaded, data, salt) ==
    IF data.start_date = << >> \/ data.end_date = << >> \/ data.weather = "" \/ data.event = ""
    THEN Response(400, [error |-> "Missing required parameters"])
    ELSE IF Strptime(data.start_date).kind = "raised" \/ Strptime(data.end_date).kind = "raised"
    THEN Response(400, [error |-> "Invalid date format. Use YYYY-MM-DD"])
    ELSE LET dates == DateRange(Strptime(data.start_date).value, Strptime(data.end_date).value)
         IN  IF loaded /\ p # None
             THEN BatchResponse(BatchPredict(p, dates, [i \in 1..Len(dates) |-> data.weather],
                                             [i \in 1..Len(dates) |-> data.event]))
             ELSE BatchResponse(Returns(MockRows(dates, data.weather, data.event, salt)))

(***************************************************************************)
(* dining_agent.py: the predict_workhours tool of DiningHallAgent          *)
(***************************************************************************)
\* the values the tool is called with, by their Python type: a dict is a
\* function from its keys
PyStr(v) == [str |-> v]

PyList(v) == [list |-> v]

PyDict(v) == [mapping |-> v]

PyInt(v) == [int |-> v]

\* isinstance(x, str), isinstance(x, list), isinstance(x, dict)
IsInstance(x, type) == DOMAIN x = {type}

\* return {'success': False, 'error': error}
ToolError(error) == [success |-> FALSE, error |-> error]

\* the dates the tool parses from daterange, or the error it returns
ParseDaterange(daterange) ==
    IF IsInstance(daterange, "str")
    THEN IF Strptime(daterange.str).kind = "raised"
         THEN ToolError("Invalid date format. Use YYYY-MM-DD")
         ELSE [success |-> TRUE, dates |-> <<Strptime(daterange.str).value>>,
               is_single_date |-> TRUE]
    ELSE IF IsInstance(daterange, "mapping")
    THEN IF ~({"start_date", "end_date"} \subseteq DOMAIN daterange.mapping)
         THEN ToolError("Date range must include both start_date and end_date")
         ELSE IF \/ Strptime(daterange.mapping.start_date).kind = "raised"
                 \/ Strptime(daterange.mapping.end_date).kind = "raised"
         THEN ToolError("Invalid date format in range. Use YYYY-MM-DD")
         ELSE IF Strptime(daterange.mapping.start_date).value > Strptime(daterange.mapping.end_date).value
         THEN ToolError("start_date cannot be after end_date")
         ELSE [success |-> TRUE,
               dates |-> DateRange(Strptime(daterange.mapping.start_date).value,
                                   Strptime(daterange.mapping.end_date).value),
               is_single_date |-> FALSE]
    ELSE ToolError("daterange must be either a date string or dict with start_date/end_date")

\* weather_list and event_list: a string is repeated for every date, a list
\* must have the length of dates
ListFor(value, dates, what) ==
    IF IsInstance(value, "str") THEN [success |-> TRUE, list |-> [i \in 1..Len(dates) |-> value.str]]
    ELSE IF IsInstance(value, "list")
    THEN IF Len(value.list) # Len(dates) THEN ToolError(what \o " list length must match number of dates")
         ELSE [success |-> TRUE, list |-> value.list]
    ELSE ToolError(what \o " must be a string or list of strings")

\* the result of a date range, from the frame batch_predict returned: a column
\* of a frame without rows raises KeyError
RangeResult(dates, frame) ==
    IF frame.kind = "raised" THEN ToolError("Prediction failed: " \o frame.message)
    ELSE IF frame.value = << >> THEN ToolError("Prediction failed: 'total_predicted_hours'")
    ELSE [success |-> TRUE, prediction_type |-> "date_range",
          date_range |-> [start_date |-> dates[1], end_date |-> dates[Len(dates)],
                          total_days |-> Len(dates)],
          predictions |-> frame.value,
          summary |-> [total_predicted_hours |->
                          SumSeq([i \in 1..Len(frame.value) |->
                                     frame.value[i].prediction.total_predicted_hours]),
                       total_predicted_transactions |->
                          SumSeq([i \in 1..Len(frame.value) |->
                                     frame.value[i].prediction.predicted_transactions])]]

\* the result of a single date, from what predict_staffing_requirements gave
SingleResult(date, weather, event, prediction) ==
    IF prediction.kind = "raised" THEN ToolError("Prediction failed: " \o prediction.message)
    ELSE [success |-> TRUE, prediction_type |-> "single_date", date |-> date,
          weather |-> weather, event |-> event, predictions |-> prediction.value]

\* _predict_workhours_impl from the validation of the two lists on
PredictFromLists(p, parsed, weather_list, event_list) ==
    IF ~weather_list.success THEN weather_list
    ELSE IF ~event_list.success THEN event_list
    ELSE IF \E i \in 1..Len(weather_list.list) : weather_list.list[i] \notin ValidWeather
    THEN ToolError("Invalid weather conditions")
    ELSE IF \E i \in 1..Len(event_list.list) : event_list.list[i] \notin ValidEvents
    THEN ToolError("Invalid events")
    ELSE IF parsed.is_single_date
    THEN SingleResult(parsed.dates[1], weather_list.list[1], event_list.list[1],
                      PredictStaffingRequirements(p, parsed.dates[1], weather_list.list[1],
                                                  event_list.list[1]))
    ELSE RangeResult(parsed.dates,
                     BatchPredict(p, parsed.dates, weather_list.list, event_list.list))

\* _predict_workhours_impl once daterange is parsed
PredictFromDates(p, parsed, weather, event) ==
    IF ~parsed.success THEN parsed
    ELSE PredictFromLists(p, parsed, ListFor(weather, parsed.dates, "Weather"),
                          ListFor(event, parsed.dates, "Event"))

\* DiningHallAgent._predict_workhours_impl(daterange, weather, event)
PredictWorkhoursImpl(p, daterange, weather, event) ==
    IF ~p.tx_estimator.loaded \/ ~p.work_estimator.loaded
    THEN ToolError("Prediction models not loaded. Please check model files.")
    ELSE PredictFromDates(p, ParseDaterange(daterange), weather, event)

(***************************************************************************)
(* Configuration overrides a caller passes to the constructor              *)
(***************************************************************************)
NoOverride == Dict(<< >>)

\* {'academic_calendar': {'special_periods': {'winter_intersession': {'dates': []}}}}
NoIntersession ==
    Dict(<< <<"academic_calendar", Dict(<< <<"special_periods", Dict(<<
              <<"winter_intersession", Dict(<< <<"dates", Leaf(<< >>)>> >>)>> >>)>> >>)>> >>)

Calendars == {NoOverride, NoIntersession}

(***************************************************************************)
(* The machine at rest: no generator constructed, no call in progress      *)
(***************************************************************************)
Gens == {1, 2}

NotConstructed == [constructed |-> FALSE]

Idle == [active |-> FALSE]


AtRest ==
    /\ rng = 0
    /\ gens = [g \in Gens |-> NotConstructed]
    /\ call = Idle
    /\ runs = << >>
    /\ predictor = None
    /\ models_loaded = FALSE

(***************************************************************************)
(* SimulationDriver: construction and generate_dataset                     *)
(***************************************************************************)
MaxDays == 2
MaxRuns == 2

Seeds == {42, 7}

\* first days of the ranges generated in the fall semester: Oct 12 and 13 lie
\* near two event anchors (parent_weekend 10/12, career_fair 10/15)
StartDates == {MkDate(2025, 10, 12), MkDate(2025, 10, 13)}

\* a Sunday after finals, the day before a Monday of the same period
BreakStart == MkDate(2025, 12, 21)

\* the config dict passed to the constructor: seed, date range, calendar override
Override(seed, start_date, end_date, calendar) ==
    Put(Put(Put(calendar, "random_seed", Leaf(seed)), "start_date", Leaf(start_date)),
        "end_date", Leaf(end_date))

\* ranges of 0..MaxDays days (end_date = start_date - 1 is the empty range):
\* fall ranges under the default calendar, a December range under either calendar
Overrides ==
    {Override(seed, start, start + days - 1, NoOverride) :
        seed \in Seeds, start \in StartDates, days \in 0..MaxDays}
    \cup {Override(42, BreakStart, BreakStart + days - 1, calendar) :
        days \in 1..MaxDays, calendar \in Calendars}

\* g = CenterpointeDiningDataGenerator(config): objects are created in the order 1, 2
Construct(g, override) ==
    /\ ~call.active
    /\ ~gens[g].constructed
    /\ \A h \in Gens : h < g => gens[h].constructed
    /\ LET obj == NewGenerator(override)
       IN  /\ gens' = [gens EXCEPT ![g] = [constructed |-> TRUE, config |-> obj.config,
                                            special_periods |-> obj.special_periods]]
           /\ rng' = NpRandomSeed(Get(obj.config, <<"random_seed">>).value)
    /\ UNCHANGED <<predictor, models_loaded, call, runs, query, reply>>

(***************************************************************************)
(* Financial and performance metrics of a daily record.  Transactions and  *)
(* meal plan holders are counts, hours are tenths of an hour, the revenue  *)
(* is in cents and the labor cost in thousandths of a dollar.              *)
(***************************************************************************)
\* round(a / b, n) for integers a >= 0 and b > 0 scaled to the n decimals: the
\* nearest integer to a / b, the even one on a tie
RoundDiv(a, b) ==
    LET q == a \div b
        r == a % b
    IN  IF 2 * r > b \/ (2 * r = b /\ q % 2 = 1) THEN q + 1 ELSE q

\* a / b as the record needs it; a division by zero raises ZeroDivisionError and
\* leaves no value: it is told by the divisor, which the metrics note
Quotient(a, b) == IF b = 0 THEN 0 ELSE RoundDiv(a, b)

\* daily_revenue = total_transactions * 13.25
DailyRevenue(total_transactions) == total_transactions * 1325

\* total_labor_hours = sum(staffing_data.values())
TotalLaborHours(staffing_data) == SumSeq([i \in 1..Len(Roles) |-> staffing_data[Roles[i].key]])

\* labor_cost = total_labor_hours * average_hourly_rate, the rate being 18.75
LaborCost(total_labor_hours) == total_labor_hours * 1875

\* the metrics with the labor hours guarded by max(total_labor_hours, 1) and the
\* branch taken on the transactions
DerivedMetricsOnTransactions(daily_revenue, total_transactions, total_labor_hours, labor_cost) ==
    LET hours == Max({total_labor_hours, 10})
    IN  IF total_transactions > 0
        THEN [revenue_per_labor_hour      |-> Quotient(daily_revenue * 10, hours),
              transactions_per_labor_hour |-> Quotient(total_transactions * 1000, hours),
              labor_cost_percentage       |-> Quotient(labor_cost * 100, Max({daily_revenue, 100})),
              divisors                    |-> {hours, Max({daily_revenue, 100})}]
        ELSE [revenue_per_labor_hour      |-> 0,
              transactions_per_labor_hour |-> 0,
              labor_cost_percentage       |-> 0,
              divisors                    |-> {}]

\* the derived performance metrics: revenue_per_labor_hour in cents,
\* transactions_per_labor_hour in hundredths, labor_cost_percentage in tenths of
\* a percent, and the divisors of the divisions carried out
DerivedMetrics(daily_revenue, total_transactions, total_labor_hours, labor_cost) ==
    IF total_labor_hours > 0
    THEN [revenue_per_labor_hour      |-> Quotient(daily_revenue * 10, total_labor_hours),
          transactions_per_labor_hour |-> Quotient(total_transactions * 1000, total_labor_hours),
          labor_cost_percentage       |-> Quotient(labor_cost * 100, Max({daily_revenue, 100})),
          divisors                    |-> {total_labor_hours, Max({daily_revenue, 100})}]
    ELSE [revenue_per_labor_hour      |-> 0,
          transactions_per_labor_hour |-> 0,
          labor_cost_percentage       |-> 0,
          divisors                    |-> {}]

\* the operational metrics: transactions_per_meal_plan_holder in thousandths and
\* facility_capacity_utilization in thousandths of the 680 * 2.5 seatings of a
\* day, not above 1.0
OperationalMetrics(total_transactions, total_meal_plan_holders) ==
    [transactions_per_meal_plan_holder |->
         Quotient(total_transactions * 1000, Max({1, total_meal_plan_holders})),
     facility_capacity_utilization |-> Min({1000, (total_transactions * 1000) \div 1700}),
     divisors |-> {Max({1, total_meal_plan_holders}), 1700}]

\* the financial, operational and derived columns of the record of a day
RecordMetrics(total_transactions, total_meal_plan_holders, total_labor_hours) ==
    LET daily_revenue == DailyRevenue(total_transactions)
        labor_cost    == LaborCost(total_labor_hours)
        operational   == OperationalMetrics(total_transactions, total_meal_plan_holders)
        derived       == DerivedMetrics(daily_revenue, total_transactions, total_labor_hours,
                                        labor_cost)
    IN  [estimated_daily_revenue           |-> daily_revenue,
         labor_cost_actual                 |-> labor_cost,
         transactions_per_meal_plan_holder |-> operational.transactions_per_meal_plan_holder,
         facility_capacity_utilization     |-> operational.facility_capacity_utilization,
         total_actual_hours                |-> total_labor_hours,
         revenue_per_labor_hour            |-> derived.revenue_per_labor_hour,
         transactions_per_labor_hour       |-> derived.transactions_per_labor_hour,
         labor_cost_percentage             |-> derived.labor_cost_percentage,
         divisors                          |-> operational.divisors \cup derived.divisors]

\* an iteration that takes the population of the day the range started on
DailyRecordPopulationOfStart(gen, current_date, days_processed, state) ==
    LET period_info        == GetAcademicPeriodInfo(gen, current_date)
        population_data    == CalculateStudentPopulation(gen, current_date - (days_processed - 1))
        environmental_data == GenerateEnvironmentalConditions(gen, current_date, state)
        transaction_data   == CalculateBaseTransactions(current_date, population_data,
                                                        period_info, environmental_data)
        staffing_data      == CalculateStaffingRequirements(gen, current_date, transaction_data,
                                                            period_info, environmental_data)
    IN  [record |->
            [date                    |-> current_date,
             academic_period         |-> period_info.period_name,
             period_type             |-> period_info.period_type,
             seasonal_multiplier     |-> period_info.multiplier,
             total_enrollment        |-> population_data.total_enrollment,
             active_enrollment       |-> population_data.active_enrollment,
             total_meal_plan_holders |-> population_data.total_meal_plan_holders,
             weather                 |-> environmental_data.weather,
             campus_event            |-> environmental_data.campus_event,
             event_impact            |-> environmental_data.event_impact,
             event_scheduled         |-> environmental_data.event_scheduled,
             total_transactions      |-> transaction_data.total_transactions,
             payment_breakdown       |-> transaction_data.payment_breakdown,
             meal_period_breakdown   |-> transaction_data.meal_period_breakdown,
             staffing                |-> staffing_data,
             metrics                 |-> RecordMetrics(transaction_data.total_transactions,
                                                       population_data.total_meal_plan_holders,
                                                       TotalLaborHours(staffing_data)),
             rng_before              |-> state],
         state |-> environmental_data.state]

\* one iteration of the while loop, on the loop variables and the global random
\* state at its start: the record appended (rng_before is not a column: it notes
\* the random state the iteration started from) and the random state left
DailyRecord(gen, current_date, days_processed, state) ==
    LET period_info        == GetAcademicPeriodInfo(gen, current_date)
        population_data    == CalculateStudentPopulation(gen, current_date)
        environmental_data == GenerateEnvironmentalConditions(gen, current_date, state)
        transaction_data   == CalculateBaseTransactions(current_date, population_data,
                                                        period_info, environmental_data)
        staffing_data      == CalculateStaffingRequirements(gen, current_date, transaction_data,
                                                            period_info, environmental_data)
    IN  [record |->
            [date                    |-> current_date,
             academic_period         |-> period_info.period_name,
             period_type             |-> period_info.period_type,
             seasonal_multiplier     |-> period_info.multiplier,
             total_enrollment        |-> population_data.total_enrollment,
             active_enrollment       |-> population_data.active_enrollment,
             total_meal_plan_holders |-> population_data.total_meal_plan_holders,
             weather                 |-> environmental_data.weather,
             campus_event            |-> environmental_data.campus_event,
             event_impact            |-> environmental_data.event_impact,
             event_scheduled         |-> environmental_data.event_scheduled,
             total_transactions      |-> transaction_data.total_transactions,
             payment_breakdown       |-> transaction_data.payment_breakdown,
             meal_period_breakdown   |-> transaction_data.meal_period_breakdown,
             staffing                |-> staffing_data,
             metrics                 |-> RecordMetrics(transaction_data.total_transactions,
                                                       population_data.total_meal_plan_holders,
                                                       TotalLaborHours(staffing_data)),
             rng_before              |-> state],
         state |-> environmental_data.state]

\* generate_dataset() is entered: lines 799-811
BeginGenerate(g) ==
    /\ ~call.active
    /\ gens[g].constructed
    /\ Len(runs) < MaxRuns
    /\ call' = [active         |-> TRUE,
                gen            |-> g,
                start_date     |-> Get(gens[g].config, <<"start_date">>).value,
                end_date       |-> Get(gens[g].config, <<"end_date">>).value,
                current_date   |-> Get(gens[g].config, <<"start_date">>).value,
                days_processed |-> 0,
                data           |-> << >>,
                rng_start      |-> rng]
    /\ UNCHANGED <<predictor, models_loaded, rng, gens, runs, query, reply>>

\* a loop body that advances current_date by two days
DayStepEveryOtherDay ==
    /\ call.active
    /\ call.current_date <= call.end_date
    /\ LET day == DailyRecord(gens[call.gen], call.current_date, call.days_processed + 1, rng)
       IN  /\ call' = [call EXCEPT !.days_processed = @ + 1,
                                   !.data = Append(@, day.record),
                                   !.current_date = @ + 2]
           /\ rng' = day.state
    /\ UNCHANGED <<predictor, models_loaded, gens, runs, query, reply>>

\* one pass through the body of `while current_date <= end_date`
DayStep ==
    /\ call.active
    /\ call.current_date <= call.end_date
    /\ LET day == DailyRecord(gens[call.gen], call.current_date, call.days_processed + 1, rng)
       IN  /\ call' = [call EXCEPT !.days_processed = @ + 1,
                                   !.data = Append(@, day.record),
                                   !.current_date = @ + 1]
           /\ rng' = day.state
    /\ UNCHANGED <<predictor, models_loaded, gens, runs, query, reply>>

\* the loop has ended: the DataFrame is built, the statistics printed and the
\* frame returned; df['date'] of a frame without rows raises KeyError
Return ==
    /\ call.active
    /\ call.current_date > call.end_date
    /\ runs' = Append(runs, [gen        |-> call.gen,
                             config     |-> gens[call.gen].config,
                             start_date |-> call.start_date,
                             end_date   |-> call.end_date,
                             rng_start  |-> call.rng_start,
                             raised     |-> IF call.data = << >> THEN "KeyError" ELSE "none",
                             data       |-> call.data])
    /\ call' = Idle
    /\ UNCHANGED <<predictor, models_loaded, rng, gens, query, reply>>

\* g.save_config(filepath): json.dump(self.config) into the file, whose content
\* is what the call leaves.  json writes a tuple as a list; the sequences of
\* the model stand for both, which the code reads by index alone
SaveConfig(g) ==
    /\ ~call.active
    /\ gens[g].constructed
    /\ query' = [op |-> "save_config", gen |-> g]
    /\ reply' = Returns(gens[g].config)
    /\ UNCHANGED <<rng, gens, call, runs, predictor, models_loaded>>

\* g.load_config(filepath), the file holding the JSON object loaded_config:
\* self.config is updated in place; neither the academic calendar set up by
\* the constructor nor the random state is touched
LoadConfig(g, loaded_config) ==
    /\ ~call.active
    /\ gens[g].constructed
    /\ gens' = [gens EXCEPT ![g].config = UpdateConfigRecursively(@, loaded_config)]
    /\ query' = [op |-> "load_config", gen |-> g, before |-> gens[g].config,
                 loaded_config |-> loaded_config]
    /\ reply' = Returns(None)
    /\ UNCHANGED <<rng, call, runs, predictor, models_loaded>>

Init ==
    /\ AtRest
    /\ query = [op |-> "none"]
    /\ reply = NoReply

Next ==
    \/ \E g \in Gens, override \in Overrides : Construct(g, override)
    \/ \E g \in Gens : BeginGenerate(g)
    \/ DayStep
    \/ Return

Spec == Init /\ [][Next]_vars

(***************************************************************************)
(* Properties of generate_dataset                                          *)
(***************************************************************************)
\* the columns of a record: rng_before is a note of the model, not a column
Columns(record) == [f \in (DOMAIN record) \ {"rng_before"} |-> record[f]]

ColumnsOf(data) == [k \in 1..Len(data) |-> Columns(data[k])]

\* the configuration apart from the date range
Settings(config) == Put(Put(config, "start_date", Leaf(0)), "end_date", Leaf(0))

\* the run started from the random state its own constructor seeded
Fresh(run) == run.rng_start = NpRandomSeed(Get(run.config, <<"random_seed">>).value)

Returned == {i \in 1..Len(runs) : runs[i].raised = "none"}

\* every (run, position) of a record returned
Rows == {<<i, k>> \in (1..Len(runs)) \X (1..(MaxDays + 1)) : k <= Len(runs[i].data)}

\* the dates appended so far are start_date, start_date + 1, ... without a gap
Consecutive(data, start_date) == \A k \in 1..Len(data) : data[k].date = start_date + k - 1

\* C1: for start_date <= end_date generate_dataset returns, without raising,
\* exactly (end_date - start_date).days + 1 records, the k-th of them dated
\* start_date + k - 1 (ascending, no gap, no duplicate); while the loop runs
\* the dates appended are consecutive and current_date, which every
\* iteration advances, never passes end_date + 1, so the loop ends.
C1_OneRecordPerDay ==
    /\ \A i \in 1..Len(runs) :
          runs[i].start_date <= runs[i].end_date =>
             /\ runs[i].raised = "none"
             /\ Len(runs[i].data) = runs[i].end_date - runs[i].start_date + 1
             /\ Consecutive(runs[i].data, runs[i].start_date)
             /\ \A k, l \in 1..Len(runs[i].data) : k < l => runs[i].data[k].date < runs[i].data[l].date
    /\ (call.active /\ call.start_date <= call.end_date) =>
          /\ Consecutive(call.data, call.start_date)
          /\ call.current_date = call.start_date + Len(call.data)
          /\ call.current_date <= call.end_date + 1
          /\ call.days_processed = Len(call.data)

\* a one-day range and a longer range have both been generated
C1_Witness ==
    /\ \E i \in Returned : runs[i].start_date = runs[i].end_date /\ Len(runs[i].data) = 1
    /\ \E i \in Returned : runs[i].start_date < runs[i].end_date /\ Len(runs[i].data) >= 2

\* C2: two invocations with the same seed, configuration and date range
\* return the same records, whatever was constructed or generated before.
C2_Reproducible ==
    \A i, j \in Returned :
        runs[i].config = runs[j].config => ColumnsOf(runs[i].data) = ColumnsOf(runs[j].data)

CalendarColumns ==
    {"date", "academic_period", "period_type", "seasonal_multiplier",
     "total_enrollment", "active_enrollment", "total_meal_plan_holders"}

ScheduleOf(run, record) ==
    DaySchedule(gens[run.gen], record.date, GetAcademicPeriodInfo(gens[run.gen], record.date))

\* C9: a record of a day whose operating schedule is closed has
\* total_transactions = 0 and 0.0 hours for each of the six roles.
C9_ClosedDayZero ==
    \A r \in Rows :
        LET run    == runs[r[1]]
            record == run.data[r[2]]
        IN  IsClosed(ScheduleOf(run, record))
            => /\ record.total_transactions = 0
               /\ \A key \in RoleKeys : record.staffing[key] = 0

\* C22: meal swipes bring no revenue: the estimated_daily_revenue of every
\* record of generate_dataset, which is the revenue its revenue_per_labor_hour
\* and labor_cost_percentage are computed from, is the number of dollar
\* transactions (dining_dollars + bronco_bucks + credit_debit) times the
\* dollar_transaction_average 12.54.
C22_RevenueFromDollarTransactions ==
    \A r \in Rows :
        LET record  == runs[r[1]].data[r[2]]
            payment == record.payment_breakdown
        IN  record.metrics.estimated_daily_revenue
                = (payment.dining_dollars + payment.bronco_bucks + payment.credit_debit) * 1254

\* the dates of the horizon that the default configuration resolves to 'winter_break'
WinterBreakDates ==
    {date \in Dates : GetAcademicPeriodInfo(NewGenerator(NoOverride), date).period_name = "winter_break"}

\* the run was made with the operating hours and the academic calendar of the
\* default configuration
UnderDefaults(run) ==
    \A key \in {"operating_hours", "academic_calendar"} :
        Get(run.config, <<key>>) = Get(NewGenerator(NoOverride).config, <<key>>)

InitResolver ==
    /\ AtRest
    /\ query \in [op : {"resolve"}, override : Calendars, date : Dates]
    /\ reply = NoReply

Resolve ==
    /\ query.op = "resolve"
    /\ reply = NoReply
    /\ reply' = [kind |-> "period",
                 info |-> GetAcademicPeriodInfo(NewGenerator(query.override), query.date),
                 multiplier |-> GetAcademicPeriodMultiplier(query.date)]
    /\ UNCHANGED <<predictor, models_loaded, rng, gens, call, runs, query>>

NextResolver == Resolve

SpecResolver == InitResolver /\ [][NextResolver]_vars

\* calendar order of (month, day) pairs
MD(month, day) == month * 100 + day

\* the date (month, day) lies in the range start..end of the calendar, a range
\* whose start is after its end running over the new year
InRange(month, day, start, end) ==
    IF MD(start[1], start[2]) <= MD(end[1], end[2])
    THEN MD(start[1], start[2]) <= MD(month, day) /\ MD(month, day) <= MD(end[1], end[2])
    ELSE MD(start[1], start[2]) <= MD(month, day) \/ MD(month, day) <= MD(end[1], end[2])

\* the date lies in the fall, spring or summer window of the default calendar
InRegularWindow(month, day) ==
    \/ InRange(month, day, <<8, 20>>, <<12, 15>>)
    \/ InRange(month, day, <<1, 15>>, <<5, 15>>)
    \/ InRange(month, day, <<6, 1>>, <<8, 15>>)

Resolved == query.op = "resolve" /\ reply.kind = "period"

\* the special periods of the generator the query was resolved on
QueryPeriods == NewGenerator(query.override).special_periods

\* C4: a date inside a special period's range and inside a regular window (fall,
\* spring, summer) resolves to the special period, name and multiplier, in the
\* generator's resolver; the predictor's resolver returns the special multiplier.
C4_Priority ==
    Resolved =>
        LET month == Month(query.date)
            day   == Day(query.date)
        IN  /\ \A i \in 1..Len(QueryPeriods) :
                   LET p == QueryPeriods[i]
                   IN  (InRange(month, day, p.start, p.end) /\ InRegularWindow(month, day))
                       => /\ reply.info.period_type = "special"
                          /\ reply.info.period_name = p.name
                          /\ reply.info.multiplier = p.multiplier
            /\ \A i \in 1..Len(PredictorSpecialPeriods) :
                   LET p == PredictorSpecialPeriods[i]
                   IN  (InRange(month, day, p.start, p.end) /\ InRegularWindow(month, day))
                       => reply.multiplier = p.multiplier

\* a date of finals week, which is inside the fall window, has been resolved
C4_Witness ==
    /\ Resolved
    /\ Month(query.date) = 12 /\ Day(query.date) = 10
    /\ reply.info.period_name = "finals_weeks"
    /\ reply.multiplier = 1160

\* C5 as stated: 2025-08-20 is the start of the fall semester, multiplier 1.0
C5_FallStart ==
    (Resolved /\ query.date = MkDate(2025, 8, 20))
        => /\ reply.info.period_name = "fall_semester"
           /\ reply.info.multiplier = 1000
           /\ reply.multiplier = 1000

\* C5 amended: 2025-08-20 lies in move-in week (Aug 15-22), which has priority
\* over the fall semester starting that day: both resolvers give 1.28.
C5_MoveInWeek ==
    (Resolved /\ query.date = MkDate(2025, 8, 20))
        => /\ reply.info.period_name = "move_in_week"
           /\ reply.info.period_type = "special"
           /\ reply.info.multiplier = 1280
           /\ reply.multiplier = 1280

C5_Witness ==
    /\ Resolved
    /\ query.date = MkDate(2025, 8, 20)
    /\ query.override = NoOverride
    /\ reply.info.multiplier = 1280

\* C6: under the default calendar, 2025-12-10 .. 2025-12-15 resolve to finals
\* week with multiplier 1.16, and 2025-12-16 .. 2025-12-20 to another period.
C6_FinalsRange ==
    (Resolved /\ query.override = NoOverride)
        => /\ (MkDate(2025, 12, 10) <= query.date /\ query.date <= MkDate(2025, 12, 15))
                  => /\ reply.info.period_name = "finals_weeks"
                     /\ reply.info.period_type = "special"
                     /\ reply.info.multiplier = 1160
           /\ (MkDate(2025, 12, 16) <= query.date /\ query.date <= MkDate(2025, 12, 20))
                  => /\ reply.info.period_name # "finals_weeks"
                     /\ reply.info.multiplier # 1160

\* the last day of finals week has been resolved under the default calendar
C6_Witness ==
    /\ Resolved
    /\ query.override = NoOverride
    /\ query.date = MkDate(2025, 12, 15)
    /\ reply.info.period_name = "finals_weeks"

\* the multipliers of the regular classifications, the fallback's included
RegularMultipliers == {1000, 960, 320, 90, 500}

RegularNames == {"fall_semester", "spring_semester", "summer_session", "winter_break",
                 "unknown_period"}

\* C17: on every date of the calendar (Feb 29 included) the generator's resolver
\* returns one classification, special or regular; a special one carries the
\* name and multiplier of a configured special period, a regular one a regular
\* name and one of 1.0, 0.96, 0.32, 0.09, 0.5; under the default configuration
\* the multiplier lies within [0.09, 1.28].
C17_OneBoundedClassification ==
    Resolved =>
        /\ \/ /\ reply.info.period_type = "special"
              /\ \E i \in 1..Len(QueryPeriods) :
                     /\ reply.info.period_name = QueryPeriods[i].name
                     /\ reply.info.multiplier = QueryPeriods[i].multiplier
           \/ /\ reply.info.period_type = "regular"
              /\ reply.info.period_name \in RegularNames
              /\ reply.info.multiplier \in RegularMultipliers
        /\ query.override = NoOverride
               => 90 <= reply.info.multiplier /\ reply.info.multiplier <= 1280

\* Feb 29 of the leap year 2024 has been resolved under the default calendar
C17_Witness ==
    /\ Resolved
    /\ query.override = NoOverride
    /\ query.date = MkDate(2024, 2, 29)
    /\ Month(query.date) = 2 /\ Day(query.date) = 29
    /\ reply.info.period_name = "spring_semester"
    /\ reply.info.multiplier = 960

\* the date lies in the range of one of the generator's special periods
InSpecialPeriod(month, day) ==
    \E i \in 1..Len(QueryPeriods) :
        InRange(month, day, QueryPeriods[i].start, QueryPeriods[i].end)

\* C20: a date covered by no special period and by none of the fall, spring and
\* summer windows (under the default calendar exactly May 16 .. May 31) is
\* classified winter_break with multiplier 0.09 by the generator's resolver and
\* gets 0.09 from the predictor's; under the default calendar the fallback
\* 'unknown_period' (0.5) is never returned.
C20_GapIsWinterBreak ==
    Resolved =>
        LET month == Month(query.date)
            day   == Day(query.date)
            gap   == ~InSpecialPeriod(month, day) /\ ~InRegularWindow(month, day)
        IN  /\ gap => /\ reply.info.period_name = "winter_break"
                      /\ reply.info.multiplier = 90
                      /\ reply.multiplier = 90
            /\ query.override = NoOverride
                   => /\ gap <=> (month = 5 /\ day >= 16)
                      /\ reply.info.period_name # "unknown_period"

(***************************************************************************)
(* SpecTransactions: _calculate_base_transactions on every date of the     *)
(* horizon, as generate_dataset calls it, under each weather and event     *)
(***************************************************************************)
\* the dict _generate_environmental_conditions returns for a weather and an event
Conditions(weather, campus_event) ==
    [weather |-> weather, weather_impact |-> WeatherImpact(weather),
     campus_event |-> campus_event, event_impact |-> EventImpact(campus_event),
     event_scheduled |-> FALSE]

\* the events of the least, the neutral and the greatest impact
TransactionEvents == {"campus_construction", "regular_day", "graduation"}

InitTransactions ==
    /\ AtRest
    /\ query \in [op : {"transactions"}, date : Dates,
                  weather : {WeatherTypes[i] : i \in 1..Len(WeatherTypes)},
                  campus_event : TransactionEvents]
    /\ reply = NoReply

Estimate ==
    /\ query.op = "transactions"
    /\ reply = NoReply
    /\ LET gen == NewGenerator(NoOverride)
       IN  reply' = [kind |-> "transactions",
                     estimate |-> CalculateBaseTransactions(
                                      query.date,
                                      CalculateStudentPopulation(gen, query.date),
                                      GetAcademicPeriodInfo(gen, query.date),
                                      Conditions(query.weather, query.campus_event))]
    /\ UNCHANGED <<predictor, models_loaded, rng, gens, call, runs, query>>

NextTransactions == Estimate

SpecTransactions == InitTransactions /\ [][NextTransactions]_vars

\* the sum of the values of a dict of counts
RECURSIVE SumOf(_, _)
SumOf(counts, keys) ==
    IF keys = {} THEN 0
    ELSE LET k == CHOOSE k \in keys : TRUE IN counts[k] + SumOf(counts, keys \ {k})

\* C7: the four payment-method buckets are non-negative integers that sum to
\* total_transactions, and so are the four meal-period buckets; the last
\* bucket of each split (credit_debit, late_night) is the total less the
\* three truncated shares before it, so it is never below its own share.
C7_SplitsSumToTotal ==
    reply.kind = "transactions" =>
        LET total   == reply.estimate.total_transactions
            payment == reply.estimate.payment_breakdown
            meal    == reply.estimate.meal_period_breakdown
        IN  /\ DOMAIN payment = {"meal_swipes", "dining_dollars", "bronco_bucks", "credit_debit"}
            /\ DOMAIN meal = {"breakfast", "lunch", "dinner", "late_night"}
            /\ \A k \in DOMAIN payment : payment[k] \in Nat
            /\ \A k \in DOMAIN meal : meal[k] \in Nat
            /\ SumOf(payment, DOMAIN payment) = total
            /\ SumOf(meal, DOMAIN meal) = total
            /\ payment.credit_debit >= IntScale(total, PaymentMethods.credit_debit)
            /\ meal.late_night >= IntScale(total, MealPeriodDistribution.late_night)

\* an estimate whose last payment bucket holds more than its truncated share
C7_Witness ==
    /\ reply.kind = "transactions"
    /\ reply.estimate.total_transactions > 1000
    /\ reply.estimate.payment_breakdown.credit_debit
          > IntScale(reply.estimate.total_transactions, PaymentMethods.credit_debit)
    /\ reply.estimate.meal_period_breakdown.late_night
          > IntScale(reply.estimate.total_transactions, MealPeriodDistribution.late_night)

(***************************************************************************)
(* SpecStaffing: _calculate_staffing_requirements on a day of each         *)
(* schedule, for volumes on both sides of its thresholds                   *)
(***************************************************************************)
\* a weekday and a weekend day of the fall semester, of finals, of the
\* summer session, of the days after finals and of late May
StaffingDates ==
    {MkDate(2025, 10, 15), MkDate(2025, 10, 18), MkDate(2025, 12, 10), MkDate(2025, 12, 13),
     MkDate(2025, 7, 9), MkDate(2025, 7, 12), MkDate(2025, 12, 22), MkDate(2025, 12, 21),
     MkDate(2025, 5, 20)}

\* total_transactions: none, one, a quiet day, the last volume at 90% of
\* capacity and the first above it, a lunch peak above 800, a record day
Volumes == {0, 1, 500, 1530, 1531, 1700, 3500}

\* events with an impact below 1.2 and above it
StaffingEvents == {"regular_day", "club_fair"}

InitStaffing ==
    /\ AtRest
    /\ query \in [op : {"staffing"}, override : Calendars, date : StaffingDates,
                  total_transactions : Volumes,
                  weather : {WeatherTypes[i] : i \in 1..Len(WeatherTypes)},
                  campus_event : StaffingEvents]
    /\ reply = NoReply

Staff ==
    /\ query.op = "staffing"
    /\ reply = NoReply
    /\ LET gen              == NewGenerator(query.override)
           period_info      == GetAcademicPeriodInfo(gen, query.date)
           split            == Split(query.total_transactions)
           transaction_data == [total_transactions    |-> query.total_transactions,
                                meal_period_breakdown |-> split.meal_period_breakdown]
       IN  reply' = [kind     |-> "staffing",
                     closed   |-> IsClosed(DaySchedule(gen, query.date, period_info)),
                     staffing |-> CalculateStaffingRequirements(
                                      gen, query.date, transaction_data, period_info,
                                      Conditions(query.weather, query.campus_event)),
                     period_name      |-> period_info.period_name,
                     staff_mix_factor |-> StaffMixFactor(period_info.period_name)]
    /\ UNCHANGED <<predictor, models_loaded, rng, gens, call, runs, query>>

NextStaffing == Staff

SpecStaffing == InitStaffing /\ [][NextStaffing]_vars

\* C8: on a day whose schedule is closed every one of the six roles gets 0.0
\* hours; on any other day every role gets at least its minimum_coverage_hours,
\* whatever the volume (0 included), the weather and the event, the hours
\* being those returned, after rounding to one decimal.
C8_ClosedZeroElseMinimum ==
    reply.kind = "staffing" =>
        /\ DOMAIN reply.staffing = RoleKeys
        /\ Cardinality(RoleKeys) = 6
        /\ \A key \in RoleKeys :
              IF reply.closed
              THEN reply.staffing[key] = 0
              ELSE reply.staffing[key] >= RoleOf(key).minimum_coverage_hours

\* an open day without a transaction: every role is held at its minimum
C8_Witness ==
    /\ reply.kind = "staffing"
    /\ ~reply.closed
    /\ query.total_transactions = 0
    /\ \A key \in RoleKeys : reply.staffing[key] = RoleOf(key).minimum_coverage_hours

\* a closed day with a volume above capacity
C8_ClosedReached ==
    /\ reply.kind = "staffing"
    /\ reply.closed
    /\ query.total_transactions = 3500

Staffed == query.op = "staffing" /\ reply.kind = "staffing"

\* C21: the staff-mix divisor of every role is 0.82 x 0.91 on a date that
\* resolves to the finals-weeks special period, 0.82 x 0.76 on a date that
\* resolves to the summer session, and 0.82 on every other date.
C21_StaffMixByPeriod ==
    (Staffed /\ ~reply.closed) =>
        reply.staff_mix_factor =
            CASE reply.period_name = "finals_weeks"   -> (8200 * 91) \div 100
              [] reply.period_name = "summer_session" -> (8200 * 76) \div 100
              [] OTHER                                -> 8200

(***************************************************************************)
(* SpecPredict: a StaffingPredictor used directly and through app.py       *)
(***************************************************************************)
MaxBatch == 2

\* a Wednesday of the fall semester
PredictDate == MkDate(2025, 10, 15)

\* one of the four weather categories and a value outside them
WeatherInputs == {"rainy", "snowy"}

\* one of the nine event categories and a value outside them
EventInputs == {"graduation", "homecoming"}

SeqsUpTo(S, n) == UNION {[1..k -> S] : k \in 0..n}

\* the three lists batch_predict is called with: lists of one length up to
\* MaxBatch, two of them with two categories of weather in either order, and
\* lists of which one is longer than the other two
Batches ==
    {<<[i \in 1..Len(weather_conditions) |-> PredictDate], weather_conditions,
       [i \in 1..Len(weather_conditions) |-> "graduation"]>> :
        weather_conditions \in SeqsUpTo(WeatherInputs, MaxBatch)
                               \cup {<<"rainy", "sunny">>, <<"sunny", "rainy">>}}
    \cup {<<[i \in 1..n[1] |-> PredictDate], [i \in 1..n[2] |-> "rainy"],
            [i \in 1..n[3] |-> "graduation"]>> :
            n \in {<<1, 0, 0>>, <<1, 2, 1>>, <<1, 1, 0>>}}

\* the date strings posted: a date, a thirteenth month, and none
DateStrings == {<<2025, 10, 15>>, <<2025, 13, 1>>, << >>}

\* hash() of the string, which differs from one process to the next
HashSeed == 9001

InitPredict ==
    /\ AtRest
    /\ query = [op |-> "none"]
    /\ reply = NoReply

\* predictor = StaffingPredictor()
NewStaffingPredictor ==
    /\ predictor = None
    /\ predictor' = NewPredictor
    /\ UNCHANGED <<rng, gens, call, runs, models_loaded, query, reply>>

\* predictor.load_tx_model(path): the file holds the estimator
LoadTxModel(estimator) ==
    /\ predictor # None
    /\ predictor' = [predictor EXCEPT !.tx_estimator = estimator]
    /\ UNCHANGED <<rng, gens, call, runs, models_loaded, query, reply>>

\* predictor.load_work_model(path)
LoadWorkModel(estimator) ==
    /\ predictor # None
    /\ predictor' = [predictor EXCEPT !.work_estimator = estimator]
    /\ UNCHANGED <<rng, gens, call, runs, models_loaded, query, reply>>

\* import of app.py: the two model files are found and loaded, or the import
\* falls back to demo mode with predictor = None
ImportApp(found, tx_estimator, work_estimator) ==
    /\ predictor = None
    /\ ~models_loaded
    /\ IF found
       THEN /\ predictor' = [tx_estimator |-> tx_estimator, work_estimator |-> work_estimator]
            /\ models_loaded' = TRUE
       ELSE /\ predictor' = None
            /\ models_loaded' = FALSE
    /\ UNCHANGED <<rng, gens, call, runs, query, reply>>

CallPredictTransactions(date, weather, event) ==
    /\ predictor # None
    /\ query' = [op |-> "predict_transactions", date |-> date, weather |-> weather, event |-> event]
    /\ reply' = PredictTransactions(predictor, date, weather, event)
    /\ UNCHANGED <<rng, gens, call, runs, predictor, models_loaded>>

CallPredictStaffingRequirements(date, weather, event) ==
    /\ predictor # None
    /\ query' = [op |-> "predict_staffing_requirements", date |-> date, weather |-> weather,
                 event |-> event]
    /\ reply' = PredictStaffingRequirements(predictor, date, weather, event)
    /\ UNCHANGED <<rng, gens, call, runs, predictor, models_loaded>>

CallBatchPredict(dates, weather_conditions, events) ==
    /\ predictor # None
    /\ query' = [op |-> "batch_predict", dates |-> dates, predictor |-> predictor,
                 weather_conditions |-> weather_conditions, events |-> events]
    /\ reply' = BatchPredict(predictor, dates, weather_conditions, events)
    /\ UNCHANGED <<rng, gens, call, runs, predictor, models_loaded>>

PostApiPredict(data, seed) ==
    /\ query' = [op |-> "api_predict", data |-> data, models_loaded |-> models_loaded]
    /\ reply' = ApiPredict(predictor, models_loaded, data, seed)
    /\ UNCHANGED <<rng, gens, call, runs, predictor, models_loaded>>

NextPredict ==
    \/ NewStaffingPredictor
    \/ \E estimator \in TxModels : LoadTxModel(estimator)
    \/ \E estimator \in WorkModels : LoadWorkModel(estimator)
    \/ \E found \in BOOLEAN, tx_estimator \in TxModels, work_estimator \in WorkModels :
          ImportApp(found, tx_estimator, work_estimator)
    \/ \E weather \in WeatherInputs, event \in EventInputs :
          CallPredictTransactions(PredictDate, weather, event)
    \/ \E weather \in WeatherInputs, event \in EventInputs :
          CallPredictStaffingRequirements(PredictDate, weather, event)
    \/ \E batch \in Batches : CallBatchPredict(batch[1], batch[2], batch[3])
    \/ \E data \in [date : DateStrings, weather : WeatherInputs \cup {""},
                    event : EventInputs \cup {""}] :
          PostApiPredict(data, HashSeed)

SpecPredict == InitPredict /\ [][NextPredict]_vars

\* the call made carries a weather value outside the 4 categories or an event
\* value outside the 9
InvalidAsked ==
    CASE query.op \in {"predict_transactions", "predict_staffing_requirements"} ->
            query.weather \notin ValidWeather \/ query.event \notin ValidEvents
      [] query.op = "api_predict" ->
            query.data.weather \notin ValidWeather \/ query.data.event \notin ValidEvents
      [] query.op = "batch_predict" ->
            \/ \E i \in 1..Len(query.weather_conditions) : query.weather_conditions[i] \notin ValidWeather
            \/ \E i \in 1..Len(query.events) : query.events[i] \notin ValidEvents
      [] OTHER -> FALSE

\* the call failed: it raised, or the handler answered with an error status
Failed ==
    \/ reply.kind = "raised"
    \/ reply.kind = "response" /\ reply.status >= 400 /\ DOMAIN reply.body = {"error"}

\* C10: a call that carries a weather value outside the 4 categories or an
\* event value outside the 9 fails: predict_transactions and
\* predict_staffing_requirements raise, /api/predict answers with an error
\* with the models loaded and in demo mode, and batch_predict raises
\* instead of returning a frame.
C10_InvalidNeverPredicted == InvalidAsked => Failed

\* batch_predict was called with three lists of one length
BatchAsked ==
    /\ query.op = "batch_predict"
    /\ Len(query.dates) = Len(query.weather_conditions)
    /\ Len(query.weather_conditions) = Len(query.events)

\* what predict_staffing_requirements gives for the i-th triple of the batch
Single(i) ==
    PredictStaffingRequirements(query.predictor, query.dates[i], query.weather_conditions[i],
                                query.events[i])

\* the positions of the batch whose prediction succeeds, in input order
Succeeding ==
    SelectSeq([i \in 1..Len(query.dates) |-> i], LAMBDA i : Single(i).kind = "returned")

\* C12: batch_predict called with lists of one length returns normally, and
\* its frame holds exactly one row for each date whose prediction succeeded,
\* with that date's prediction, in the order of the input; a date whose
\* prediction failed is left out and the dates after it are still processed.
C12_FailedDatesOmitted ==
    BatchAsked =>
        /\ reply.kind = "returned"
        /\ Len(reply.value) = Len(Succeeding)
        /\ \A k \in 1..Len(Succeeding) :
              /\ reply.value[k].date = query.dates[Succeeding[k]]
              /\ reply.value[k].weather = query.weather_conditions[Succeeding[k]]
              /\ reply.value[k].event = query.events[Succeeding[k]]
              /\ reply.value[k].prediction = Single(Succeeding[k]).value

\* a batch whose first date fails and whose second succeeds returned one row
C12_Witness ==
    /\ BatchAsked
    /\ Len(query.dates) = 2
    /\ Succeeding = <<2>>
    /\ reply.kind = "returned"
    /\ Len(reply.value) = 1
    /\ reply.value[1].weather = "rainy"

\* C13: batch_predict raises ValueError, and returns no frame, whenever the
\* three lists do not have one length or the transaction model or the work
\* model is not loaded.
C13_UnloadedOrUnequalRaises ==
    (/\ query.op = "batch_predict"
     /\ \/ ~BatchAsked
        \/ ~query.predictor.tx_estimator.loaded
        \/ ~query.predictor.work_estimator.loaded)
    => (reply.kind = "raised" /\ reply.error = "ValueError")

\* predict_staffing_requirements was called and returned a result
StaffingPredicted == query.op = "predict_staffing_requirements" /\ reply.kind = "returned"

\* C28: whatever the two models return, a result of
\* predict_staffing_requirements has a predicted_transactions that is a
\* non-negative integer, hours of at least 0.0 for every role, and a
\* total_predicted_hours that is the sum of the hours of the roles, to one
\* decimal.
C28_ResultNonNegative ==
    StaffingPredicted =>
        /\ reply.value.predicted_transactions \in Nat
        /\ DOMAIN reply.value.roles = RoleKeys
        /\ \A key \in RoleKeys : reply.value.roles[key] >= 0
        /\ reply.value.total_predicted_hours
               = SumSeq([i \in 1..Len(Roles) |-> reply.value.roles[Roles[i].key]])

\* a result from two models that both return negative values
C28_Witness ==
    /\ StaffingPredicted
    /\ predictor # None
    /\ predictor.tx_estimator.loaded /\ predictor.tx_estimator.intercept < -90000
    /\ predictor.work_estimator.loaded /\ predictor.work_estimator.intercept < 0
    /\ reply.value.predicted_transactions = 0
    /\ \A key \in RoleKeys : reply.value.roles[key] = 0
    /\ reply.value.total_predicted_hours = 0

(***************************************************************************)
(* SpecConfig: a generator's configuration through construction,           *)
(* load_config, save_config and generate_dataset                           *)
(***************************************************************************)
\* JSON objects a configuration file holds
\* {'operating_hours': {'break_periods': {'weekend': {'brunch': [11.0, 14.0]}},
\*                      'summer_session': 'closed'}}: a dict where the default is
\* a string, a string where the default is a dict
HoursFile ==
    Dict(<< <<"operating_hours", Dict(<<
              <<"break_periods", Dict(<< <<"weekend", Dict(<< <<"brunch", Leaf(<<1100, 1400>>)>> >>)>> >>)>>,
              <<"summer_session", Leaf("closed")>> >>)>> >>)

\* {'random_seed': 7, 'notes': {'author': 'x'}}: a scalar, and a key the defaults lack
NotesFile ==
    Dict(<< <<"random_seed", Leaf(7)>>, <<"notes", Dict(<< <<"author", Leaf("x")>> >>)>> >>)

ConfigFiles == {NoIntersession, HoursFile, NotesFile}

\* a generator of this specification is constructed for one day of the fall,
\* with the default operating hours or with those of HoursFile
ConfigOverrides ==
    {Override(42, MkDate(2025, 10, 13), MkDate(2025, 10, 13), hours) :
        hours \in {NoOverride, HoursFile}}

NextConfig ==
    \/ \E override \in ConfigOverrides : Construct(1, override)
    \/ \E loaded_config \in ConfigFiles : LoadConfig(1, loaded_config)
    \/ SaveConfig(1)
    \/ BeginGenerate(1)
    \/ DayStep
    \/ Return

SpecConfig == Init /\ [][NextConfig]_vars

\* every key path of a configuration tree, the empty path of the tree itself included
RECURSIVE PathsOf(_)
PathsOf(d) ==
    IF ~d.dict THEN {<< >>}
    ELSE {<< >>} \cup UNION {{<<key>> \o path : path \in PathsOf(d.at[key])} : key \in DOMAIN d.at}

\* load_config has just merged query.loaded_config into query.before
Merged == query.op = "load_config"

\* the override holds the key path, or holds a scalar on the way to it
Mentioned(update_dict, path) ==
    \/ path \in PathsOf(update_dict)
    \/ \E n \in 1..(Len(path) - 1) :
          /\ SubSeq(path, 1, n) \in PathsOf(update_dict)
          /\ ~Get(update_dict, SubSeq(path, 1, n)).dict

\* C14: the override is merged recursively.  After a merge every key path of
\* the override is a key path of the result; where the override holds a leaf
\* the result holds that leaf; where both sides hold a map the result holds a
\* map with the keys of both; where only the override holds a map the result
\* holds the override's map; every key path of the base that the override
\* does not mention keeps its value; and merging the same override again
\* changes nothing.
C14_RecursiveMerge ==
    Merged =>
        LET base_dict   == query.before
            update_dict == query.loaded_config
            merged      == gens[query.gen].config
        IN  /\ \A path \in PathsOf(update_dict) :
                  /\ path \in PathsOf(merged)
                  /\ IF ~Get(update_dict, path).dict
                     THEN Get(merged, path) = Get(update_dict, path)
                     ELSE IF path \in PathsOf(base_dict) /\ Get(base_dict, path).dict
                     THEN /\ Get(merged, path).dict
                          /\ DOMAIN Get(merged, path).at
                                = (DOMAIN Get(base_dict, path).at) \cup (DOMAIN Get(update_dict, path).at)
                     ELSE Get(merged, path) = Get(update_dict, path)
            /\ \A path \in PathsOf(base_dict) :
                  ~Mentioned(update_dict, path) =>
                      path \in PathsOf(merged) /\ Get(merged, path) = Get(base_dict, path)
            /\ UpdateConfigRecursively(merged, update_dict) = merged

\* a file with a map where the base holds a string and a string where the base
\* holds a map was merged into a configuration that it changed
C14_Witness ==
    /\ Merged
    /\ query.loaded_config = HoursFile
    /\ gens[query.gen].config # query.before
    /\ Get(query.before, <<"operating_hours", "break_periods", "weekend">>) = Leaf("closed")
    /\ Get(gens[query.gen].config, <<"operating_hours", "academic_year", "weekday", "lunch">>)
          = Leaf(<<1075, 1450>>)

\* C15: the configuration of a constructed generator never changes: no step
\* (generate_dataset, save_config, load_config) changes any value of it.
C15_ConfigImmutable ==
    [][\A g \in Gens : gens[g].constructed => gens'[g].config = gens[g].config]_vars

\* C29: after any sequence of operations the list of special periods the
\* period resolver consults is the one derived from the generator's current
\* configuration, so a calendar changed by load_config is the one resolved.
C29_CalendarFollowsConfig ==
    \A g \in Gens :
        gens[g].constructed => gens[g].special_periods = SetupAcademicCalendar(gens[g].config)

(***************************************************************************)
(* SpecRange: the entry points that take a range of dates, in app.py and   *)
(* in the agent                                                            *)
(***************************************************************************)
\* the date strings posted as the end of a range that starts on PredictDate:
\* the day before it, the days after it, and none
EndStrings == {<<2025, 10, 14 + days>> : days \in 0..MaxBatch} \cup {<< >>}

\* the daterange argument of the tool: a date string, a dict with both keys or
\* with one, and a number
Dateranges ==
    {PyStr(date) : date \in DateStrings \ {<< >>}}
    \cup {PyDict([start_date |-> <<2025, 10, 15>>, end_date |-> end_date]) :
             end_date \in EndStrings \ {<< >>}}
    \cup {PyDict([start_date |-> <<2025, 13, 1>>, end_date |-> <<2025, 10, 15>>]),
          PyDict([start_date |-> <<2025, 10, 15>>]), PyInt(20251015)}

\* the weather argument of the tool: a string, a list of one string, a number
WeatherArguments ==
    {PyStr(weather) : weather \in WeatherInputs} \cup {PyList(<<"rainy">>), PyInt(0)}

EventArguments == {PyStr(event) : event \in EventInputs} \cup {PyList(<< >>)}

PostSimpleBatchPredict(data, salt) ==
    /\ query' = [op |-> "simple_batch_predict", data |-> data, models_loaded |-> models_loaded]
    /\ reply' = SimpleBatchPredict(predictor, models_loaded, data, salt)
    /\ UNCHANGED <<rng, gens, call, runs, predictor, models_loaded>>

CallBatchPredictStaffing(data, salt) ==
    /\ query' = [op |-> "batch_predict_staffing", data |-> data, models_loaded |-> models_loaded]
    /\ reply' = BatchPredictStaffing(predictor, models_loaded, data, salt)
    /\ UNCHANGED <<rng, gens, call, runs, predictor, models_loaded>>

\* the agent's predict_workhours tool, the agent's predictor being this one
ToolPredictWorkhours(daterange, weather, event) ==
    /\ predictor # None
    /\ query' = [op |-> "predict_workhours", daterange |-> daterange, weather |-> weather,
                 event |-> event]
    /\ reply' = PredictWorkhoursImpl(predictor, daterange, weather, event)
    /\ UNCHANGED <<rng, gens, call, runs, predictor, models_loaded>>

NextRange ==
    \/ NewStaffingPredictor
    \/ \E estimator \in TxModels : LoadTxModel(estimator)
    \/ \E estimator \in WorkModels : LoadWorkModel(estimator)
    \/ \E found \in BOOLEAN, tx_estimator \in TxModels, work_estimator \in WorkModels :
          ImportApp(found, tx_estimator, work_estimator)
    \/ \E data \in [start_date : DateStrings, end_date : EndStrings] :
          PostSimpleBatchPredict(data, HashSeed)
    \/ \E data \in [start_date : DateStrings, end_date : EndStrings,
                    weather : WeatherInputs \cup {""}, event : {"graduation"}] :
          CallBatchPredictStaffing(data, HashSeed)
    \/ \E daterange \in Dateranges, weather \in WeatherArguments, event \in EventArguments :
          ToolPredictWorkhours(daterange, weather, event)

SpecRange == InitPredict /\ [][NextRange]_vars

\* the request names a range whose two dates parse and whose end date is before
\* its start date
ReversedAsked ==
    CASE query.op \in {"simple_batch_predict", "batch_predict_staffing"} ->
            /\ Strptime(query.data.start_date).kind = "returned"
            /\ Strptime(query.data.end_date).kind = "returned"
            /\ Strptime(query.data.end_date).value < Strptime(query.data.start_date).value
            /\ "weather" \in DOMAIN query.data => query.data.weather # ""
      [] query.op = "predict_workhours" ->
            /\ IsInstance(query.daterange, "mapping")
            /\ {"start_date", "end_date"} \subseteq DOMAIN query.daterange.mapping
            /\ Strptime(query.daterange.mapping.start_date).kind = "returned"
            /\ Strptime(query.daterange.mapping.end_date).kind = "returned"
            /\ Strptime(query.daterange.mapping.end_date).value
                  < Strptime(query.daterange.mapping.start_date).value
      [] OTHER -> FALSE

\* the request was refused: an error status, or the tool's error result
Refused ==
    \/ reply.kind = "raised"
    \/ reply.kind = "response" /\ reply.status >= 400
    \/ "success" \in DOMAIN reply /\ ~reply.success

\* C11: a range request whose end date is before its start date is refused
\* with an error by every range entry point (the two range handlers of app.py
\* and the agent's predict_workhours tool), never answered with an empty or
\* partial result.
C11_ReversedRangeRefused == ReversedAsked => Refused

(***************************************************************************)
(* SpecPopulation: the enrollment of the generator and of the predictor on *)
(* every date of the horizon, next to that of the following day and of the *)
(* same calendar day in the later years                                    *)
(***************************************************************************)
\* the dates of the horizon with the month and day of the date, in a later year
SameDayLater(date) ==
    {later \in Dates : /\ Year(later) > Year(date)
                       /\ Month(later) = Month(date)
                       /\ Day(later) = Day(date)}

InitPopulation ==
    /\ AtRest
    /\ query \in [op : {"population"}, date : Dates]
    /\ reply = NoReply

\* _calculate_student_population(date) and calculate_enrollment_features(date)
Population ==
    /\ query.op = "population"
    /\ reply = NoReply
    /\ reply' = [kind |-> "population",
                 years_elapsed |-> YearsElapsed(query.date),
                 next_day |-> YearsElapsed(query.date + 1),
                 generator |-> CalculateStudentPopulation(NewGenerator(NoOverride), query.date),
                 predictor |-> CalculateEnrollmentFeatures(query.date),
                 later |-> [date \in SameDayLater(query.date) |-> TotalEnrollment(date)]]
    /\ UNCHANGED <<predictor, models_loaded, rng, gens, call, runs, query>>

NextPopulation == Population

SpecPopulation == InitPopulation /\ [][NextPopulation]_vars

Populated == query.op = "population" /\ reply.kind = "population"

\* C16: total_enrollment never decreases between two dates with the same month
\* and day and increasing year, in the generator and in the predictor, and
\* years_elapsed never decreases from a day to the next day, the step from
\* December 31 to January 1 of leap and common years included.
C16_EnrollmentNonDecreasing ==
    Populated =>
        /\ reply.years_elapsed <= reply.next_day
        /\ \A date \in DOMAIN reply.later :
               /\ reply.generator.total_enrollment <= reply.later[date]
               /\ reply.predictor.total_enrollment <= reply.later[date]

\* the last day of the leap year 2024 has been evaluated: day 366 of the year,
\* followed by day 1 of 2025, with the same calendar day in a later year
C16_Witness ==
    /\ Populated
    /\ query.date = MkDate(2024, 12, 31)
    /\ YDay(query.date) = 366
    /\ reply.years_elapsed < reply.next_day
    /\ DOMAIN reply.later # {}

\* C23: in the population of a date, at the generator and at the predictor,
\* residential_students is the truncation of total_enrollment x 0.152 and
\* commuter_students is total_enrollment - residential_students, so the two
\* add up to total_enrollment.
C23_ResidentialCommuterSplit ==
    Populated =>
        \A site \in {"generator", "predictor"} :
            LET snapshot == reply[site]
            IN  /\ snapshot.residential_students = IntScale(snapshot.total_enrollment, 152)
                /\ snapshot.commuter_students
                       = snapshot.total_enrollment - snapshot.residential_students
                /\ snapshot.residential_students + snapshot.commuter_students
                       = snapshot.total_enrollment

\* the period the generator's resolver gives the date under the default calendar
QueryPeriodName == GetAcademicPeriodInfo(NewGenerator(NoOverride), query.date).period_name

\* C24: at the generator and at the predictor the factor that scales
\* active_enrollment, reported as the seasonal factor, is the entry of the
\* enrollment_seasonal_variation table for the resolved period (1.0 without an
\* entry), not the period's staffing multiplier, so that active_enrollment is
\* never above total_enrollment, move-in week and finals weeks included.
C24_SeasonalFactorFromTable ==
    Populated =>
        /\ reply.generator.seasonal_factor = SeasonalFactor(QueryPeriodName)
        /\ reply.generator.active_enrollment
               = IntScale(reply.generator.total_enrollment, SeasonalFactor(QueryPeriodName))
        /\ reply.generator.active_enrollment <= reply.generator.total_enrollment
        /\ reply.predictor.enrollment_seasonal_factor = SeasonalFactor(QueryPeriodName)
        /\ reply.predictor.active_enrollment
               = IntScale(reply.predictor.total_enrollment, SeasonalFactor(QueryPeriodName))
        /\ reply.predictor.active_enrollment <= reply.predictor.total_enrollment

(***************************************************************************)
(* SpecWrapping: the containment test of the resolvers on every date,      *)
(* under calendars whose winter intersession runs over the new year        *)
(***************************************************************************)
\* {'academic_calendar': {'special_periods': {'winter_intersession': {'dates': [date_range]}}}}
Intersession(date_range) ==
    Dict(<< <<"academic_calendar", Dict(<< <<"special_periods", Dict(<<
              <<"winter_intersession", Dict(<< <<"dates", Leaf(<<date_range>>)>> >>)>> >>)>> >>)>> >>)

\* the default range, one starting in November and one ending in February
WrappingCalendars ==
    {NoOverride} \cup {Intersession(date_range) :
                          date_range \in {<<12, 16, 1, 14>>, <<11, 20, 1, 14>>, <<12, 16, 2, 10>>}}

InitWrapping ==
    /\ AtRest
    /\ query \in [op : {"contain"}, override : WrappingCalendars, date : Dates]
    /\ reply = NoReply

\* the loops over the special periods in _get_academic_period_info and in
\* get_academic_period_multiplier: the periods whose test is true on the date
Contain ==
    /\ query.op = "contain"
    /\ reply = NoReply
    /\ reply' = [kind |-> "contained",
                 generator |-> MatchingPeriods(NewGenerator(query.override).special_periods,
                                               Month(query.date), Day(query.date)),
                 predictor |-> MatchingPeriods(PredictorSpecialPeriods,
                                               Month(query.date), Day(query.date))]
    /\ UNCHANGED <<predictor, models_loaded, rng, gens, call, runs, query>>

NextWrapping == Contain

SpecWrapping == InitWrapping /\ [][NextWrapping]_vars

\* the period's range runs over the new year
Wraps(period) == period.start[1] > period.end[1]

\* the date is on or after the start or on or before the end, in calendar order
OnOrAfterStartOrOnOrBeforeEnd(period, month, day) ==
    \/ MD(month, day) >= MD(period.start[1], period.start[2])
    \/ MD(month, day) <= MD(period.end[1], period.end[2])

\* C19: for every special period whose range wraps the year boundary, whatever
\* its start and end day, and every date, the containment test of either
\* resolver is true iff the date is on or after the range's start or on or
\* before the range's end in calendar order.
C19_WrappingContainment ==
    (query.op = "contain" /\ reply.kind = "contained") =>
        LET month == Month(query.date)
            day   == Day(query.date)
        IN  /\ \A i \in 1..Len(QueryPeriods) :
                   Wraps(QueryPeriods[i])
                       => (i \in reply.generator
                              <=> OnOrAfterStartOrOnOrBeforeEnd(QueryPeriods[i], month, day))
            /\ \A i \in 1..Len(PredictorSpecialPeriods) :
                   Wraps(PredictorSpecialPeriods[i])
                       => (i \in reply.predictor
                              <=> OnOrAfterStartOrOnOrBeforeEnd(PredictorSpecialPeriods[i], month, day))

(***************************************************************************)
(* SpecMetrics: the financial and performance columns of a record, built   *)
(* from transaction counts, meal plan holders and staffing hours that      *)
(* include the zeros                                                       *)
(***************************************************************************)
TransactionCounts == {0, 1, 850, 5000}

HolderCounts == {0, 1, 4700}

\* hours of a role in tenths: none, or a shift of eight hours
StaffingData == [RoleKeys -> {0, 80}]

InitMetrics ==
    /\ AtRest
    /\ query \in [op : {"record"}, total_transactions : TransactionCounts,
                   total_meal_plan_holders : HolderCounts, staffing_data : StaffingData]
    /\ reply = NoReply

\* lines 845-850 and 902-930 of the loop body of generate_dataset
BuildRecord ==
    /\ query.op = "record"
    /\ reply = NoReply
    /\ reply' = [kind |-> "record",
                 metrics |-> RecordMetrics(query.total_transactions,
                                           query.total_meal_plan_holders,
                                           TotalLaborHours(query.staffing_data))]
    /\ UNCHANGED <<predictor, models_loaded, rng, gens, call, runs, query>>

NextMetrics == BuildRecord

SpecMetrics == InitMetrics /\ [][NextMetrics]_vars

Built == query.op = "record" /\ reply.kind = "record"

\* C18: a record whose total labor hours are 0 has revenue_per_labor_hour,
\* transactions_per_labor_hour and labor_cost_percentage 0.0, and no division
\* made while the record is built has a zero divisor, whether or not the meal
\* plan holders, the transactions or the revenue are 0.
C18_ZeroHoursZeroMetrics ==
    Built =>
        /\ reply.metrics.total_actual_hours = 0
               => /\ reply.metrics.revenue_per_labor_hour = 0
                  /\ reply.metrics.transactions_per_labor_hour = 0
                  /\ reply.metrics.labor_cost_percentage = 0
        /\ 0 \notin reply.metrics.divisors

\* a record without labor hours and with transactions and revenue has been built
C18_Witness ==
    /\ Built
    /\ \A key \in RoleKeys : query.staffing_data[key] = 0
    /\ reply.metrics.total_actual_hours = 0
    /\ query.total_transactions > 0
    /\ reply.metrics.estimated_daily_revenue > 0
    /\ reply.metrics.revenue_per_labor_hour = 0

\* a record with labor hours and without transactions and holders has been built
ZeroInputsBuilt ==
    /\ Built
    /\ reply.metrics.total_actual_hours > 0
    /\ query.total_transactions = 0
    /\ query.total_meal_plan_holders = 0
    /\ reply.metrics.estimated_daily_revenue = 0
    /\ reply.metrics.divisors # {}

(***************************************************************************)
(* SpecSurge: the clamp and the surge that end the loop over the roles of  *)
(* _calculate_staffing_requirements, for adjusted hours on both sides of   *)
(* the role's minimum and volumes on both sides of 90% of capacity         *)
(***************************************************************************)
\* adjusted_hours in HourUnit: none, half an hour, the minimum of management and
\* just above it, the minimum of the kitchen line, more than any minimum
AdjustedInputs == {0, HourUnit \div 2, 3 * (HourUnit \div 2), 16 * (HourUnit \div 10),
                   8 * HourUnit, 12 * HourUnit + (HourUnit \div 4)}

SurgeVolumes == {0, 1529, 1530, 1531, 1700, 3500}

InitSurge ==
    /\ AtRest
    /\ query \in [op : {"final_hours"}, role : RoleKeys, adjusted_hours : AdjustedInputs,
                   total_transactions : SurgeVolumes]
    /\ reply = NoReply

\* lines 781-791 of the loop over the roles, on an open day
ClampAndSurge ==
    /\ query.op = "final_hours"
    /\ reply = NoReply
    /\ reply' = [kind |-> "final_hours",
                 near_capacity |-> NearCapacity(query.total_transactions),
                 hours |-> FinalHours(RoleOf(query.role), query.adjusted_hours,
                                      query.total_transactions)]
    /\ UNCHANGED <<predictor, models_loaded, rng, gens, call, runs, query>>

NextSurge == ClampAndSurge

SpecSurge == InitSurge /\ [][NextSurge]_vars

\* C26: on an open day the surge is taken exactly when total_transactions is
\* above 0.9 x 680 x 2.5 = 1530, and it is applied after the clamp: the hours of
\* a role are round(1.08 x max(minimum_coverage_hours, adjusted_hours), 1) then,
\* and round(max(minimum_coverage_hours, adjusted_hours), 1) otherwise.
C26_SurgeAfterClamp ==
    reply.kind = "final_hours" =>
        LET minimum == RoleOf(query.role).minimum_coverage_hours * (HourUnit \div 10)
            clamped == Max({minimum, query.adjusted_hours})
        IN  /\ reply.near_capacity <=> query.total_transactions > 1530
            /\ reply.hours = IF query.total_transactions > 1530
                             THEN RoundTenths(Mul(clamped, Th(1080)))
                             ELSE RoundTenths(clamped)

\* just above 90% of capacity a role whose adjusted hours are below its minimum
\* gets 1.08 times the minimum
C26_Witness ==
    /\ reply.kind = "final_hours"
    /\ query.total_transactions = 1531
    /\ query.role = "actual_management"
    /\ query.adjusted_hours = HourUnit \div 2
    /\ reply.near_capacity
    /\ reply.hours = 16

(***************************************************************************)
(* SpecEvents: the probability table of the random event draw of           *)
(* _generate_environmental_conditions on every date of the horizon         *)
(***************************************************************************)
InitEvents ==
    /\ AtRest
    /\ query \in [op : {"event_probs"}, override : Calendars, date : Dates]
    /\ reply = NoReply

\* lines 606-615: the table handed to np.random.choice when no scheduled event
\* was accepted
EventTable ==
    /\ query.op = "event_probs"
    /\ reply = NoReply
    /\ LET period_info == GetAcademicPeriodInfo(NewGenerator(query.override), query.date)
       IN  reply' = [kind        |-> "event_probs",
                     period_name |-> period_info.period_name,
                     event_probs |-> EventProbs(period_info.period_name)]
    /\ UNCHANGED <<predictor, models_loaded, rng, gens, call, runs, query>>

NextEvents == EventTable

SpecEvents == InitEvents /\ [][NextEvents]_vars

\* the configured probabilities, and those with every event but regular_day
\* (the first) multiplied by 0.1: weights, to be normalised by their sum
UnmodifiedTable == [i \in 1..Len(EventCalendar) |-> EventCalendar[i].probability * 10]

SuppressedTable ==
    [i \in 1..Len(EventCalendar) |->
        IF i = 1 THEN EventCalendar[i].probability * 10 ELSE EventCalendar[i].probability]

\* the two tables of weights are the same distribution once normalised; the
\* weights are multiples of ten, and a tenth of them keeps the products small
SameDistribution(p, q) ==
    /\ Len(p) = Len(q)
    /\ \A i \in 1..Len(p) : p[i] % 10 = 0 /\ q[i] % 10 = 0
    /\ \A i \in 1..Len(p) :
           (p[i] \div 10) * (SumSeq(q) \div 10) = (q[i] \div 10) * (SumSeq(p) \div 10)

\* C25: the random event draw uses the suppressed table (every event but
\* regular_day at 0.1 of its probability, renormalised) on a date whose period
\* is a break (winter break, winter intersession) or the summer session, and
\* the unmodified table on every other date.
C25_SuppressedInBreaks ==
    reply.kind = "event_probs" =>
        IF reply.period_name \in {"winter_break", "winter_intersession", "summer_session"}
        THEN SameDistribution(reply.event_probs, SuppressedTable)
        ELSE SameDistribution(reply.event_probs, UnmodifiedTable)

(***************************************************************************)
(* SpecStages: the calls predict_staffing_requirements makes to the two    *)
(* estimators, with models that are missing, that return and that fail     *)
(***************************************************************************)
\* predict_staffing_requirements(date, weather, event), with the calls of
\* predict it made
CallStages(date, weather, event) ==
    /\ predictor # None
    /\ query' = [op |-> "stages", predictor |-> predictor, date |-> date,
                 weather |-> weather, event |-> event]
    /\ reply' = [kind        |-> "stages",
                 invocations |-> Invocations(predictor, date, weather, event),
                 result      |-> PredictStaffingRequirements(predictor, date, weather, event)]
    /\ UNCHANGED <<rng, gens, call, runs, predictor, models_loaded>>

NextStages ==
    \/ NewStaffingPredictor
    \/ \E estimator \in TxModels \cup {BrokenTxModel} : LoadTxModel(estimator)
    \/ \E estimator \in WorkModels : LoadWorkModel(estimator)
    \/ \E weather \in WeatherInputs, event \in EventInputs :
          CallStages(PredictDate, weather, event)

SpecStages == InitPredict /\ [][NextStages]_vars

Staged == query.op = "stages" /\ reply.kind = "stages"

\* the positions of the calls made to the work model
WorkCalls == {i \in 1..Len(reply.invocations) : reply.invocations[i].estimator = "work_estimator"}

\* C27: with a model missing the call fails before any model is invoked;
\* otherwise the transaction model is invoked first and the work model exactly
\* once, after the transaction model returned, on the stage-1 columns in their
\* order followed by total_transactions = max(0, int(stage-1 output)); when
\* the transaction model fails the work model is never invoked.
C27_StagesInOrder ==
    Staged =>
        LET p   == query.predictor
            inv == reply.invocations
        IN  /\ (~p.tx_estimator.loaded \/ ~p.work_estimator.loaded)
                   => inv = << >> /\ reply.result.kind = "raised"
            /\ inv # << >> => inv[1].estimator = "tx_estimator"
            /\ Cardinality(WorkCalls) <= 1
            /\ reply.result.kind = "returned" => WorkCalls = {2}
            /\ (inv # << >> /\ Broken(p.tx_estimator))
                   => WorkCalls = {} /\ reply.result.kind = "raised"
            /\ \A i \in WorkCalls :
                   /\ i = 2
                   /\ ~Broken(p.tx_estimator)
                   /\ inv[2].columns = inv[1].columns \o <<"total_transactions">>
                   /\ DOMAIN inv[2].features = {inv[2].columns[k] : k \in 1..Len(inv[2].columns)}
                   /\ \A f \in DOMAIN inv[1].features : inv[2].features[f] = inv[1].features[f]
                   /\ inv[2].features.total_transactions
                          = Max({0, IntOfHundredths(TxEstimate(p.tx_estimator, inv[1].features))})

\* both models were called in order and the result returned, stage 1 having
\* returned a negative value that stage 2 received as 0
C27_Witness ==
    /\ Staged
    /\ reply.result.kind = "returned"
    /\ Len(reply.invocations) = 2
    /\ reply.invocations[1].estimator = "tx_estimator"
    /\ reply.invocations[2].estimator = "work_estimator"
    /\ TxEstimate(query.predictor.tx_estimator, reply.invocations[1].features) < 0
    /\ reply.invocations[2].features.total_transactions = 0

\* the transaction model failed on the frame: one call, and the call raised
TxFailedReached ==
    /\ Staged
    /\ Broken(query.predictor.tx_estimator)
    /\ query.predictor.work_estimator.loaded
    /\ Len(reply.invocations) = 1
    /\ reply.result.kind = "raised"

====
